---- MODULE Spec2Model ----
(***************************************************************************)
(* Task tracker: the task reducer (src/reducers/taskReducer.js), the       *)
(* provider that owns the collection (src/context/TaskContext.jsx) and the *)
(* useTimer hook (src/hooks/usePrevious.js).                               *)
(*                                                                         *)
(* Time is a discrete clock `now`; a day is TicksPerDay readings long.  A  *)
(* reducer call runs to completion inside one clock reading (JavaScript is *)
(* run-to-completion), so every Date read of one call sees the same `now`. *)
(* A task is a function from field names to values, so that the object     *)
(* spreads of the source are function merges.                              *)
(***************************************************************************)
EXTENDS Integers, Sequences, FiniteSets, TLC

\* ---------------------------------------------------------------- bounds
MaxTasks == 2
MaxClock == 2
TicksPerDay == 2
MaxElapsed == 1
RandomRange == 2
MaxIntervals == 3
MaxTime == 2
MaxLen == 2
MaxApply == 2
DebounceDelay == 2
MaxTimeouts == 4
MaxSubmits == 1
MaxViewTasks == 3
MonthLength == 10
MaxMonth == 1
MinMonth == 0 - 1

VARIABLES
    tasks,              \* TaskProvider: the collection held by useReducer
    now,                \* the ambient clock (Date.now())
    last,               \* history: the step taken last, [type, id]
    thrown,             \* history: the reducer call made last threw
    rInput,             \* reducer as a function: the collection it was first given
    rAction,            \* reducer as a function: the intent being reduced
    rRnd,               \* reducer as a function: what Math.random yields
    rCount,             \* reducer as a function: how often the intent was reduced
    time,               \* useTimer: useState(initialTime)
    timerState,         \* useTimer: useState(TIMER_STATE.IDLE)
    renderedTimerState, \* useTimer: the timerState the start/pause closures captured
    intervalRef,        \* useTimer: intervalRef.current
    activeIntervals,    \* the runtime's intervals that setInterval made and nobody cleared
    nextIntervalId,     \* the runtime's next interval handle
    mounted,            \* whether the component that uses the hook is mounted
    firedAfterTeardown, \* history: a tick callback ran after the unmount
    timerLast,          \* history: the timer step taken last and what it found
    tasksType,          \* TaskProvider: what kind of JavaScript value the collection is
    stored,             \* window.localStorage: the item under STORAGE_KEYS.TASKS
    storeFails,         \* window.localStorage: every access throws (disabled, quota)
    adapterCall,        \* persistence adapter: the call made, [op, value]
    adapterOutcome,     \* persistence adapter: how the call ended
    providerState,      \* TaskProvider: "initial", "rendered", "mounted", "unmounted"
    strictMode,         \* the build: StrictMode re-runs initializers and mount effects
    loads,              \* history: how often the provider called loadFromStorage
    saveDue,            \* TaskProvider: the save effect of the last render has not run
    saveOk,             \* history: what the save effect's saveToStorage returned
    statusIntervals,    \* the runtime's live intervals made by the status effect
    nextStatusId,       \* the runtime's next handle for a status interval
    recomputedAfterTeardown, \* history: a status interval fired after the unmount
    crashed,            \* history: a reducer call on the collection raised a TypeError
    initialTimeProp,    \* Timer: the initialTime of the last render (reset's closure)
    renderedTime,       \* Timer: the time of the last render (the sync effect's deps)
    constructedWith,    \* history: the initialTime useTimer was first called with
    sinceReset,         \* history: Reset was pressed and the timer not started since
    deletedIds,         \* history: the ids a Delete was dispatched for
    dbValue,            \* useDebounce: the value argument of the last render
    debouncedValue,     \* useDebounce: useState(value)
    dbTimeouts,         \* the runtime's pending timeouts, [id, value, remaining]
    dbNextId,           \* the runtime's next timeout handle
    dbMounted,          \* whether the component that uses useDebounce is mounted
    dbQuiet,            \* history: the time since the value argument last changed
    dbFiredAfterTeardown, \* history: a timeout callback ran after the unmount
    form,               \* TaskForm: the field states, one useState each
    formErrors,         \* TaskForm: useState({}) of the validation errors
    formExisting,       \* TaskForm: the existingTask prop
    tzOffset,           \* the zone's offset from UTC, in clock ticks
    formSubmits,        \* history: the number of submits
    formLast,           \* history: what the last submit built and dispatched
    filterStatus,       \* TaskList: useState('all')
    sortBy,             \* TaskList: useState('createdAt')
    filteredAndSortedTasks, \* TaskList: the memoized projection
    currentMonth,       \* Calendar: the month of useState(new Date())
    tasksByDate,        \* Calendar: the memoized map from a day to its tasks
    viewInput,          \* history: the collection the views were given
    lastSaved,          \* history: the collection of the last save that succeeded
    hydrated            \* history: what the initializer of this session returned

vars == <<tasks, now, last, thrown, rInput, rAction, rRnd, rCount, time, timerState,
          renderedTimerState, intervalRef, activeIntervals, nextIntervalId,
          mounted, firedAfterTeardown, timerLast, tasksType, stored, storeFails, adapterCall,
          adapterOutcome, providerState, strictMode, loads, saveDue, saveOk,
          statusIntervals, nextStatusId, recomputedAfterTeardown, crashed,
          initialTimeProp, renderedTime, constructedWith, sinceReset, deletedIds,
          dbValue, debouncedValue, dbTimeouts, dbNextId, dbMounted, dbQuiet,
          dbFiredAfterTeardown,
          form, formErrors, formExisting, tzOffset, formSubmits, formLast,
          filterStatus, sortBy, filteredAndSortedTasks, currentMonth, tasksByDate,
          viewInput, lastSaved, hydrated>>

reducerVars == <<tasks, now, last, thrown>>
pureVars == <<rInput, rAction, rRnd, rCount>>
timerVars == <<time, timerState, renderedTimerState, intervalRef,
               activeIntervals, nextIntervalId, mounted, firedAfterTeardown,
               timerLast>>
storageVars == <<stored, storeFails, adapterCall, adapterOutcome>>
providerVars == <<tasksType, providerState, strictMode, loads, saveDue, saveOk,
                  statusIntervals, nextStatusId, recomputedAfterTeardown, crashed,
                  lastSaved, hydrated>>

syncVars == <<initialTimeProp, renderedTime, constructedWith, sinceReset, deletedIds>>
debounceVars == <<dbValue, debouncedValue, dbTimeouts, dbNextId, dbMounted, dbQuiet,
                  dbFiredAfterTeardown>>
formVars == <<form, formErrors, formExisting, tzOffset, formSubmits, formLast>>
viewVars == <<filterStatus, sortBy, filteredAndSortedTasks, currentMonth, tasksByDate,
              viewInput>>

\* ------------------------------------------------------------- constants
TASK_STATUS == [ACTIVE |-> "active", COMPLETED |-> "completed", OVERDUE |-> "overdue"]

TIMER_STATE == [IDLE |-> "idle", RUNNING |-> "running", PAUSED |-> "paused"]

TASK_ACTIONS ==
    [ADD_TASK |-> "ADD_TASK", UPDATE_TASK |-> "UPDATE_TASK",
     DELETE_TASK |-> "DELETE_TASK", TOGGLE_COMPLETE |-> "TOGGLE_COMPLETE",
     UPDATE_TIMER |-> "UPDATE_TIMER", RESET_TIMER |-> "RESET_TIMER",
     SET_TASKS |-> "SET_TASKS", CLEAR_ALL_TASKS |-> "CLEAR_ALL_TASKS",
     UPDATE_TASK_STATUS |-> "UPDATE_TASK_STATUS"]

ActionKinds == {TASK_ACTIONS[k] : k \in DOMAIN TASK_ACTIONS}

\* JavaScript null in a date or timestamp field (a falsy deadline)
NullDate == -1

\* JavaScript null in the id field
NullId == <<>>

\* null in intervalRef.current
NullInterval == 0

\* useTimer(initialTime = 0)
InitialTime == 0

\* ------------------------------------------------------------ the reducer
\* `task_${Date.now()}_${Math.random()...}`: the clock reading and the random suffix
generateId(clock, rnd) == <<clock, rnd>>

\* now.setHours(0, 0, 0, 0): the start of the day the clock reading is in
Midnight(clock) == clock - (clock % TicksPerDay)

\* obj.field of an object that may lack the field (undefined is falsy like null)
Get(obj, field, undef) == IF field \in DOMAIN obj THEN obj[field] ELSE undef

\* { ...a, ...b }: the fields of both, b wins
Spread(a, b) == b @@ a

calculateTaskStatus_NotSticky(task, clock) ==
    IF Get(task, "deadline", NullDate) # NullDate
          /\ task.deadline < Midnight(clock)
    THEN TASK_STATUS.OVERDUE
    ELSE TASK_STATUS.ACTIVE

calculateTaskStatus(task, clock) ==
    IF Get(task, "status", "undefined") = TASK_STATUS.COMPLETED
    THEN TASK_STATUS.COMPLETED
    ELSE IF Get(task, "deadline", NullDate) # NullDate
              /\ task.deadline < Midnight(clock)
         THEN TASK_STATUS.OVERDUE
         ELSE TASK_STATUS.ACTIVE

AddTask_PayloadWins(state, payload, clock, rnd) ==
    Append(state,
           Spread([id |-> generateId(clock, rnd), createdAt |-> clock,
                   updatedAt |-> clock, status |-> TASK_STATUS.ACTIVE,
                   elapsedTime |-> 0],
                  payload))

AddTask(state, payload, clock, rnd) ==
    Append(state,
           Spread(payload,
                  [id |-> generateId(clock, rnd), createdAt |-> clock,
                   updatedAt |-> clock, status |-> TASK_STATUS.ACTIVE,
                   elapsedTime |-> 0]))

UpdateTask_KeepsStatus(state, payload, clock) ==
    [i \in 1..Len(state) |->
        IF state[i].id = payload.id
        THEN Spread(Spread(state[i], payload), [updatedAt |-> clock])
        ELSE state[i]]

UpdateTask(state, payload, clock) ==
    [i \in 1..Len(state) |->
        IF state[i].id = payload.id
        THEN LET updatedTask == Spread(Spread(state[i], payload), [updatedAt |-> clock])
             IN  Spread(updatedTask, [status |-> calculateTaskStatus(updatedTask, clock)])
        ELSE state[i]]

RECURSIVE Filter(_, _)
\* Array.prototype.filter with the predicate task.id !== id
Filter(state, id) ==
    IF state = <<>> THEN <<>>
    ELSE IF Head(state).id # id
         THEN <<Head(state)>> \o Filter(Tail(state), id)
         ELSE Filter(Tail(state), id)

RECURSIVE FilterFirst(_, _)
FilterFirst(state, id) ==
    IF state = <<>> THEN <<>>
    ELSE IF Head(state).id # id
         THEN <<Head(state)>> \o FilterFirst(Tail(state), id)
         ELSE Tail(state)

DeleteTask_FirstOnly(state, payload) == FilterFirst(state, payload.id)

DeleteTask(state, payload) == Filter(state, payload.id)

ToggleComplete_Recomputes(state, payload, clock) ==
    [i \in 1..Len(state) |->
        IF state[i].id = payload.id
        THEN Spread(state[i],
                    [status |-> IF state[i].status = TASK_STATUS.COMPLETED
                                THEN calculateTaskStatus_NotSticky(state[i], clock)
                                ELSE TASK_STATUS.COMPLETED,
                     updatedAt |-> clock])
        ELSE state[i]]

ToggleComplete(state, payload, clock) ==
    [i \in 1..Len(state) |->
        IF state[i].id = payload.id
        THEN LET newStatus == IF state[i].status = TASK_STATUS.COMPLETED
                              THEN TASK_STATUS.ACTIVE
                              ELSE TASK_STATUS.COMPLETED
             IN  Spread(state[i], [status |-> newStatus, updatedAt |-> clock])
        ELSE state[i]]

\* an UPDATE_TIMER that creates the task when no task has the id
UpdateTimer_Upserts(state, payload, clock) ==
    IF payload.id \in {state[i].id : i \in 1..Len(state)}
    THEN [i \in 1..Len(state) |->
            IF state[i].id = payload.id
            THEN Spread(state[i], [elapsedTime |-> payload.elapsedTime,
                                   updatedAt |-> clock])
            ELSE state[i]]
    ELSE Append(state, [id |-> payload.id, title |-> "a", deadline |-> NullDate,
                        elapsedTime |-> payload.elapsedTime,
                        status |-> TASK_STATUS.ACTIVE,
                        createdAt |-> clock, updatedAt |-> clock])

UpdateTimer(state, payload, clock) ==
    [i \in 1..Len(state) |->
        IF state[i].id = payload.id
        THEN Spread(state[i], [elapsedTime |-> payload.elapsedTime, updatedAt |-> clock])
        ELSE state[i]]

ResetTimer_TouchesAll(state, payload, clock) ==
    [i \in 1..Len(state) |->
        IF state[i].id = payload.id
        THEN Spread(state[i], [elapsedTime |-> 0, updatedAt |-> clock])
        ELSE Spread(state[i], [updatedAt |-> clock])]

ResetTimer(state, payload, clock) ==
    [i \in 1..Len(state) |->
        IF state[i].id = payload.id
        THEN Spread(state[i], [elapsedTime |-> 0, updatedAt |-> clock])
        ELSE state[i]]

SetTasks(state, payload) == payload

ClearAllTasks(state) == <<>>

UpdateTaskStatus_OnlyTimestamps(state, clock) ==
    [i \in 1..Len(state) |->
        LET newStatus == calculateTaskStatus(state[i], clock)
        IN  IF state[i].status # newStatus
            THEN Spread(state[i], [updatedAt |-> clock])
            ELSE state[i]]

UpdateTaskStatus_AlwaysStamps(state, clock) ==
    [i \in 1..Len(state) |->
        Spread(state[i], [status |-> calculateTaskStatus(state[i], clock),
                          updatedAt |-> clock])]

UpdateTaskStatus(state, clock) ==
    [i \in 1..Len(state) |->
        LET newStatus == calculateTaskStatus(state[i], clock)
        IN  IF state[i].status # newStatus
            THEN Spread(state[i], [status |-> newStatus, updatedAt |-> clock])
            ELSE state[i]]

\* default: no case of the switch matches action.type
Unhandled(action) == action.type \notin ActionKinds

\* new Error(`Unhandled action type: ${action.type}`), thrown, not returned
UnhandledError(action) == [error |-> "Unhandled action type", type |-> action.type]

\* (state, action) => newState; clock and rnd are the reads of Date and Math.random
taskReducer(state, action, clock, rnd) ==
    CASE action.type = TASK_ACTIONS.ADD_TASK -> AddTask(state, action.payload, clock, rnd)
      [] action.type = TASK_ACTIONS.UPDATE_TASK -> UpdateTask(state, action.payload, clock)
      [] action.type = TASK_ACTIONS.DELETE_TASK -> DeleteTask(state, action.payload)
      [] action.type = TASK_ACTIONS.TOGGLE_COMPLETE -> ToggleComplete(state, action.payload, clock)
      [] action.type = TASK_ACTIONS.UPDATE_TIMER -> UpdateTimer(state, action.payload, clock)
      [] action.type = TASK_ACTIONS.RESET_TIMER -> ResetTimer(state, action.payload, clock)
      [] action.type = TASK_ACTIONS.SET_TASKS -> SetTasks(state, action.payload)
      [] action.type = TASK_ACTIONS.CLEAR_ALL_TASKS -> ClearAllTasks(state)
      [] action.type = TASK_ACTIONS.UPDATE_TASK_STATUS -> UpdateTaskStatus(state, clock)
      [] OTHER -> UnhandledError(action)

\* ------------------------------------------------- the persistence adapter
\* A JavaScript value is [type, items]: an array has its elements in items, a
\* value of any other type has none.
JSValue(type, items) == [type |-> type, items |-> items]

JSArray(items) == JSValue("array", items)

JSNull == JSValue("null", <<>>)

\* the item a key holds: none (getItem gives null), or a text
NoItem == [text |-> "none", type |-> "null", items |-> <<>>]

\* a text that JSON.parse rejects
Garbage == [text |-> "garbage", type |-> "null", items |-> <<>>]

\* the fields that hold a text or null, and the null of a field
NullableFields == {"id", "deadline", "startDate", "endDate", "createdAt", "updatedAt"}

NullOf(field) == IF field = "id" THEN NullId ELSE NullDate

\* the JSON token of a field's value: null, or the literal of its type
JSONToken(field, v) ==
    [json |-> CASE field \in NullableFields -> IF v = NullOf(field) THEN "null" ELSE "string"
                [] field \in {"elapsedTime", "allocatedHours"} -> "number"
                [] field = "isRepetitive" -> "boolean"
                [] field = "repetitionDays" -> "array"
                [] OTHER -> "string",
     literal |-> v]

\* the value a token denotes
JSONValueOf(field, token) ==
    IF token.json = "null" THEN NullOf(field) ELSE token.literal

\* a serialisation that writes every task's status as active
ObjectText_StatusLost(task) ==
    [f \in DOMAIN task |->
        JSONToken(f, IF f = "status" THEN TASK_STATUS.ACTIVE ELSE task[f])]

\* the JSON object of a task: its own fields in their order, each as a token
ObjectText(task) == [f \in DOMAIN task |-> JSONToken(f, task[f])]

ObjectOf(text) == [f \in DOMAIN text |-> JSONValueOf(f, text[f])]

\* JSON.stringify(value): the JSON text of the value; throws on a cyclic value
JSONstringify(value) ==
    [text |-> "json", type |-> value.type,
     items |-> [i \in 1..Len(value.items) |-> ObjectText(value.items[i])]]

StringifyThrows(value) == value.type = "cyclic"

\* JSON.parse(text): the value a JSON text denotes; throws on any other text
JSONparse(item) ==
    JSValue(item.type, [i \in 1..Len(item.items) |-> ObjectOf(item.items[i])])

ParseThrows(item) == item.text # "json"

\* how a call ends: whether it threw to its caller, what it returned, the item
\* the key holds afterwards
Outcome(threw, result, item) ==
    [done |-> TRUE, threw |-> threw, result |-> result, item |-> item]

NotDone == [done |-> FALSE, threw |-> FALSE, result |-> FALSE, item |-> NoItem]

saveToStorage_KeepsItem(item, fails, value) ==
    IF StringifyThrows(value) \/ fails
    THEN Outcome(FALSE, FALSE, item)
    ELSE Outcome(FALSE, TRUE, IF item = NoItem THEN JSONstringify(value) ELSE item)

saveToStorage(item, fails, value) ==
    IF StringifyThrows(value) \/ fails
    THEN Outcome(FALSE, FALSE, item)
    ELSE Outcome(FALSE, TRUE, JSONstringify(value))

loadFromStorage(item, fails, defaultValue) ==
    IF fails THEN Outcome(FALSE, defaultValue, item)
    ELSE IF item = NoItem THEN Outcome(FALSE, defaultValue, item)
    ELSE IF ParseThrows(item) THEN Outcome(FALSE, defaultValue, item)
    ELSE Outcome(FALSE, JSONparse(item), item)

removeFromStorage(item, fails) ==
    IF fails THEN Outcome(FALSE, FALSE, item) ELSE Outcome(FALSE, TRUE, NoItem)

clearStorage(item, fails) ==
    IF fails THEN Outcome(FALSE, FALSE, item) ELSE Outcome(FALSE, TRUE, NoItem)

\* no try/catch: what getItem throws reaches the caller
hasKey(item, fails) ==
    IF fails THEN Outcome(TRUE, FALSE, item) ELSE Outcome(FALSE, item # NoItem, item)

\* ------------------------------------------------------------- the inputs
Statuses == {TASK_STATUS.ACTIVE, TASK_STATUS.COMPLETED, TASK_STATUS.OVERDUE}

\* no deadline, and a deadline inside day 0 (in the past from day 1 on)
Deadlines == {NullDate, 1}

\* TaskForm.handleSubmit: DEFAULT_TASK overlaid with the form's fields
FormPayload(title, deadline) ==
    [id |-> NullId, title |-> title, deadline |-> deadline, elapsedTime |-> 0,
     status |-> TASK_STATUS.ACTIVE, createdAt |-> NullDate, updatedAt |-> NullDate]

AddPayloads == {FormPayload("a", d) : d \in Deadlines}

UpdatePayloads(id) ==
    {[id |-> id, deadline |-> d] : d \in Deadlines}
        \cup {[id |-> id, status |-> s] : s \in Statuses}

\* an id no task of the collection carries
MissingId == generateId(MaxClock + 1, 0)

IdsOf(state) == {state[i].id : i \in 1..Len(state)}

TargetIds == IdsOf(tasks) \cup {MissingId}

\* a collection as an earlier session saved it
StoredTask(rnd, deadline, status) ==
    [id |-> generateId(0, rnd), title |-> "a", deadline |-> deadline, elapsedTime |-> 0,
     status |-> status, createdAt |-> 0, updatedAt |-> 0]

SetTasksPayloads ==
    {<<StoredTask(0, 1, TASK_STATUS.ACTIVE)>>,
     <<StoredTask(0, NullDate, TASK_STATUS.COMPLETED), StoredTask(1, 1, TASK_STATUS.ACTIVE)>>}

\* ------------------------------------------------- the provider's collection
\* dispatch(action): useReducer replaces the collection by taskReducer's result
Dispatch(action, rnd, id) ==
    /\ IF Unhandled(action)
       THEN /\ thrown' = TRUE
            /\ UNCHANGED tasks
       ELSE /\ thrown' = FALSE
            /\ tasks' = taskReducer(tasks, action, now, rnd)
    /\ last' = [type |-> action.type, id |-> id]
    /\ UNCHANGED <<now>>
    /\ UNCHANGED pureVars
    /\ UNCHANGED timerVars
    /\ UNCHANGED viewVars
    /\ UNCHANGED formVars
    /\ UNCHANGED debounceVars
    /\ UNCHANGED syncVars
    /\ UNCHANGED storageVars
    /\ UNCHANGED providerVars

Add ==
    /\ Len(tasks) < MaxTasks
    /\ \E payload \in AddPayloads, rnd \in 0..(RandomRange - 1) :
            Dispatch([type |-> TASK_ACTIONS.ADD_TASK, payload |-> payload],
                     rnd, generateId(now, rnd))

Update ==
    \E id \in TargetIds : \E payload \in UpdatePayloads(id) :
        Dispatch([type |-> TASK_ACTIONS.UPDATE_TASK, payload |-> payload], 0, id)

Delete ==
    \E id \in TargetIds :
        Dispatch([type |-> TASK_ACTIONS.DELETE_TASK, payload |-> [id |-> id]], 0, id)

Toggle ==
    \E id \in TargetIds :
        Dispatch([type |-> TASK_ACTIONS.TOGGLE_COMPLETE, payload |-> [id |-> id]], 0, id)

TimerUpdate ==
    \E id \in TargetIds, elapsed \in 0..MaxElapsed :
        Dispatch([type |-> TASK_ACTIONS.UPDATE_TIMER,
                  payload |-> [id |-> id, elapsedTime |-> elapsed]], 0, id)

TimerReset ==
    \E id \in TargetIds :
        Dispatch([type |-> TASK_ACTIONS.RESET_TIMER, payload |-> [id |-> id]], 0, id)

SetAll ==
    \E payload \in SetTasksPayloads :
        Dispatch([type |-> TASK_ACTIONS.SET_TASKS, payload |-> payload], 0, NullId)

ClearAll ==
    Dispatch([type |-> TASK_ACTIONS.CLEAR_ALL_TASKS], 0, NullId)

\* the provider's 60 s interval fires
RecomputeStatuses ==
    Dispatch([type |-> TASK_ACTIONS.UPDATE_TASK_STATUS], 0, NullId)

ClockAdvance ==
    /\ now < MaxClock
    /\ now' = now + 1
    /\ last' = [type |-> "CLOCK", id |-> NullId]
    /\ UNCHANGED <<tasks, thrown>>
    /\ UNCHANGED pureVars
    /\ UNCHANGED timerVars
    /\ UNCHANGED viewVars
    /\ UNCHANGED formVars
    /\ UNCHANGED debounceVars
    /\ UNCHANGED syncVars
    /\ UNCHANGED storageVars
    /\ UNCHANGED providerVars

PureIdle ==
    /\ rInput = <<>>
    /\ rAction = [type |-> TASK_ACTIONS.CLEAR_ALL_TASKS]
    /\ rRnd = 0
    /\ rCount = 0

TimerIdle ==
    /\ time = 0
    /\ timerState = TIMER_STATE.IDLE
    /\ renderedTimerState = TIMER_STATE.IDLE
    /\ intervalRef = NullInterval
    /\ activeIntervals = {}
    /\ nextIntervalId = 1
    /\ mounted = TRUE
    /\ firedAfterTeardown = FALSE
    /\ timerLast = [op |-> "none", timerState |-> TIMER_STATE.IDLE, time |-> 0,
                    activeIntervals |-> {}]

\* a Timer made with useTimer(0) and rendered once
SyncIdle ==
    /\ initialTimeProp = InitialTime
    /\ renderedTime = InitialTime
    /\ constructedWith = InitialTime
    /\ sinceReset = FALSE
    /\ deletedIds = {}

\* a useDebounce("") whose first timeout has fired
DebounceIdle ==
    /\ dbValue = ""
    /\ debouncedValue = ""
    /\ dbTimeouts = {}
    /\ dbNextId = 2
    /\ dbMounted = TRUE
    /\ dbQuiet = DebounceDelay
    /\ dbFiredAfterTeardown = FALSE

\* no form is open
FormClosed ==
    /\ form = [title |-> <<>>]
    /\ formErrors = {}
    /\ formExisting = [id |-> NullId]
    /\ formSubmits = 0
    /\ formLast = [intent |-> "none"]

\* no form is open, in the zone of UTC
FormIdle ==
    /\ FormClosed
    /\ tzOffset = 0

\* the list and the calendar of an empty collection
ViewIdle ==
    /\ filterStatus = "all"
    /\ sortBy = "createdAt"
    /\ filteredAndSortedTasks = <<>>
    /\ currentMonth = 0
    /\ tasksByDate = [key \in {} |-> <<>>]
    /\ viewInput = <<>>

\* the store holds nothing and works; no adapter call is under way
StorageIdle ==
    /\ stored = NoItem
    /\ storeFails = FALSE
    /\ adapterCall = [op |-> "none", value |-> JSNull]
    /\ adapterOutcome = NotDone

\* a provider that hydrated the empty collection and whose mount effects ran
\* no save has succeeded yet
NothingSaved == [saved |-> FALSE, value |-> JSArray(<<>>)]

\* the initializer has not run
NotHydrated == [ok |-> FALSE, value |-> JSArray(<<>>), previous |-> NothingSaved]

ProviderIdle ==
    /\ tasksType = "array"
    /\ providerState = "mounted"
    /\ strictMode = FALSE
    /\ loads = 1
    /\ saveDue = FALSE
    /\ saveOk = TRUE
    /\ statusIntervals = {1}
    /\ nextStatusId = 2
    /\ recomputedAfterTeardown = FALSE
    /\ crashed = FALSE
    /\ lastSaved = NothingSaved
    /\ hydrated = NotHydrated

Init ==
    /\ tasks = <<>>
    /\ now = 0
    /\ last = [type |-> "INIT", id |-> NullId]
    /\ thrown = FALSE
    /\ PureIdle
    /\ TimerIdle
    /\ SyncIdle
    /\ DebounceIdle
    /\ FormIdle
    /\ ViewIdle
    /\ StorageIdle
    /\ ProviderIdle

Next ==
    \/ Add
    \/ Update
    \/ Delete
    \/ Toggle
    \/ TimerUpdate
    \/ TimerReset
    \/ SetAll
    \/ ClearAll
    \/ RecomputeStatuses
    \/ ClockAdvance

Spec == Init /\ [][Next]_vars

\* ------------------------------------------- the reducer as a pure function
\* two ids made at clock reading 0
SampleIds == {generateId(0, 0), generateId(0, 1)}

\* a task as some earlier reduction left it, its timer having run
SampleTask(id, deadline, status) ==
    [id |-> id, title |-> "a", deadline |-> deadline, elapsedTime |-> MaxElapsed,
     status |-> status, createdAt |-> 0, updatedAt |-> 0]

SampleTasks ==
    {SampleTask(id, d, s) : id \in SampleIds, d \in Deadlines, s \in Statuses}

Collections == UNION {[1..n -> SampleTasks] : n \in 0..MaxLen}

\* a payload that carries every field Add overrides
CarryingPayload ==
    [id |-> generateId(0, 0), title |-> "b", deadline |-> 1, elapsedTime |-> 1,
     status |-> TASK_STATUS.COMPLETED, createdAt |-> 0, updatedAt |-> 0]

PureAddPayloads ==
    {FormPayload("b", d) : d \in Deadlines} \cup {[title |-> "b"], CarryingPayload}

\* DEFAULT_TASK, the template the form's payload starts from
DEFAULT_TASK ==
    [id |-> NullId, title |-> "", deadline |-> NullDate, elapsedTime |-> 0,
     status |-> TASK_STATUS.ACTIVE, createdAt |-> NullDate, updatedAt |-> NullDate]

\* TaskForm.handleSubmit when editing:
\* { ...DEFAULT_TASK, ...existingTask, title, ..., deadline: deadline || null }
taskData(existingTask, title, deadline) ==
    Spread(Spread(DEFAULT_TASK, existingTask), [title |-> title, deadline |-> deadline])

\* the task prop the edit form last rendered with: the collection's task, or the
\* task as it was before a timer sync that is dispatched and not yet rendered
ExistingTasks(id) ==
    {[SampleTask(id, NullDate, TASK_STATUS.ACTIVE) EXCEPT !.elapsedTime = e] :
        e \in {MaxElapsed - 1, MaxElapsed}}

PureUpdatePayloads(id) ==
    UpdatePayloads(id)
        \cup {[id |-> id, title |-> "b"],
              [id |-> id, title |-> "b", elapsedTime |-> MaxElapsed, updatedAt |-> NullDate]}
        \cup {taskData(t, "b", 1) : t \in ExistingTasks(id)}

\* action types that no case of the switch names
UnknownKinds == {"ARCHIVE_TASK", "add_task"}

Intents ==
    {[type |-> TASK_ACTIONS.ADD_TASK, payload |-> p] : p \in PureAddPayloads}
        \cup {[type |-> TASK_ACTIONS.UPDATE_TASK, payload |-> p] :
                p \in UNION {PureUpdatePayloads(id) : id \in SampleIds}}
        \cup {[type |-> TASK_ACTIONS.DELETE_TASK, payload |-> [id |-> id]] : id \in SampleIds}
        \cup {[type |-> TASK_ACTIONS.TOGGLE_COMPLETE, payload |-> [id |-> id]] : id \in SampleIds}
        \cup {[type |-> TASK_ACTIONS.UPDATE_TIMER, payload |-> [id |-> id, elapsedTime |-> e]] :
                id \in SampleIds, e \in 0..MaxElapsed}
        \cup {[type |-> TASK_ACTIONS.RESET_TIMER, payload |-> [id |-> id]] : id \in SampleIds}
        \cup {[type |-> TASK_ACTIONS.CLEAR_ALL_TASKS],
              [type |-> TASK_ACTIONS.UPDATE_TASK_STATUS]}
        \cup {[type |-> k] : k \in UnknownKinds}
        \cup {[type |-> k, payload |-> [id |-> id]] : k \in UnknownKinds, id \in SampleIds}

\* the intent whose payload is a collection, not a record
BulkIntents == {[type |-> TASK_ACTIONS.SET_TASKS, payload |-> p] : p \in SetTasksPayloads}

InitReduce ==
    /\ rInput \in Collections
    /\ tasks = rInput
    /\ now \in 0..MaxClock
    /\ \/ rAction \in Intents
       \/ rAction \in BulkIntents
    /\ rRnd \in (IF rAction.type = TASK_ACTIONS.ADD_TASK THEN 0..(RandomRange - 1) ELSE {0})
    /\ rCount = 0
    /\ last = [type |-> "INIT", id |-> NullId]
    /\ thrown = FALSE
    /\ TimerIdle
    /\ SyncIdle
    /\ DebounceIdle
    /\ FormIdle
    /\ ViewIdle
    /\ StorageIdle
    /\ ProviderIdle

\* a reducer whose default case returns the state
Reduce_DefaultReturnsState ==
    /\ rCount < MaxApply
    /\ thrown' = FALSE
    /\ tasks' = IF Unhandled(rAction) THEN tasks ELSE taskReducer(tasks, rAction, now, rRnd)
    /\ rCount' = rCount + 1
    /\ UNCHANGED <<now, last, rInput, rAction, rRnd>>
    /\ UNCHANGED timerVars
    /\ UNCHANGED viewVars
    /\ UNCHANGED formVars
    /\ UNCHANGED debounceVars
    /\ UNCHANGED syncVars
    /\ UNCHANGED storageVars
    /\ UNCHANGED providerVars

\* newState = taskReducer(state, action), then once more on the result; a call
\* that throws has no result and the caller keeps the collection it passed
Reduce ==
    /\ rCount < MaxApply
    /\ IF Unhandled(rAction)
       THEN /\ thrown' = TRUE
            /\ UNCHANGED tasks
       ELSE /\ thrown' = FALSE
            /\ tasks' = taskReducer(tasks, rAction, now, rRnd)
    /\ rCount' = rCount + 1
    /\ UNCHANGED <<now, last, rInput, rAction, rRnd>>
    /\ UNCHANGED timerVars
    /\ UNCHANGED viewVars
    /\ UNCHANGED formVars
    /\ UNCHANGED debounceVars
    /\ UNCHANGED syncVars
    /\ UNCHANGED storageVars
    /\ UNCHANGED providerVars

NextReduce == Reduce

SpecReduce == InitReduce /\ [][NextReduce]_vars

\* ------------------------------------------------------------------ useTimer
clearInterval_Forgets(intervals, handle) == intervals

\* clearInterval(handle)
clearInterval(intervals, handle) == intervals \ {handle}

\* history: the step and the timer as the step found it
Called(op) ==
    timerLast' = [op |-> op, timerState |-> timerState, time |-> time,
                  activeIntervals |-> activeIntervals]

\* start(): the closure reads the timerState of the render that made it
start ==
    /\ mounted
    /\ Called("start")
    /\ nextIntervalId <= MaxIntervals
    /\ IF renderedTimerState = TIMER_STATE.RUNNING
       THEN UNCHANGED <<timerState, intervalRef, activeIntervals, nextIntervalId>>
       ELSE /\ timerState' = TIMER_STATE.RUNNING
            /\ intervalRef' = nextIntervalId
            /\ activeIntervals' = activeIntervals \cup {nextIntervalId}
            /\ nextIntervalId' = nextIntervalId + 1
    /\ UNCHANGED <<time, renderedTimerState, mounted, firedAfterTeardown>>
    /\ UNCHANGED reducerVars
    /\ UNCHANGED pureVars
    /\ UNCHANGED viewVars
    /\ UNCHANGED formVars
    /\ UNCHANGED debounceVars
    /\ UNCHANGED syncVars
    /\ UNCHANGED storageVars
    /\ UNCHANGED providerVars

pause ==
    /\ mounted
    /\ Called("pause")
    /\ IF renderedTimerState # TIMER_STATE.RUNNING
       THEN UNCHANGED <<timerState, intervalRef, activeIntervals>>
       ELSE /\ timerState' = TIMER_STATE.PAUSED
            /\ IF intervalRef # NullInterval
               THEN /\ activeIntervals' = clearInterval(activeIntervals, intervalRef)
                    /\ intervalRef' = NullInterval
               ELSE UNCHANGED <<intervalRef, activeIntervals>>
    /\ UNCHANGED <<time, renderedTimerState, nextIntervalId, mounted, firedAfterTeardown>>
    /\ UNCHANGED reducerVars
    /\ UNCHANGED pureVars
    /\ UNCHANGED viewVars
    /\ UNCHANGED formVars
    /\ UNCHANGED debounceVars
    /\ UNCHANGED syncVars
    /\ UNCHANGED storageVars
    /\ UNCHANGED providerVars

reset ==
    /\ mounted
    /\ Called("reset")
    /\ IF intervalRef # NullInterval
       THEN /\ activeIntervals' = clearInterval(activeIntervals, intervalRef)
            /\ intervalRef' = NullInterval
       ELSE UNCHANGED <<intervalRef, activeIntervals>>
    /\ time' = initialTimeProp
    /\ timerState' = TIMER_STATE.IDLE
    /\ UNCHANGED <<renderedTimerState, nextIntervalId, mounted, firedAfterTeardown>>
    /\ UNCHANGED reducerVars
    /\ UNCHANGED pureVars
    /\ UNCHANGED viewVars
    /\ UNCHANGED formVars
    /\ UNCHANGED debounceVars
    /\ UNCHANGED syncVars
    /\ UNCHANGED storageVars
    /\ UNCHANGED providerVars

\* the callback of a live interval runs: setTime(prevTime => prevTime + 1);
\* after the unmount the state update is dropped, the callback still ran
Tick ==
    /\ Called("Tick")
    /\ \E handle \in activeIntervals :
        IF mounted
        THEN /\ time < MaxTime
             /\ time' = time + 1
             /\ UNCHANGED firedAfterTeardown
        ELSE /\ firedAfterTeardown' = TRUE
             /\ UNCHANGED time
    /\ UNCHANGED <<timerState, renderedTimerState, intervalRef, activeIntervals,
                   nextIntervalId, mounted>>
    /\ UNCHANGED reducerVars
    /\ UNCHANGED pureVars
    /\ UNCHANGED viewVars
    /\ UNCHANGED formVars
    /\ UNCHANGED debounceVars
    /\ UNCHANGED syncVars
    /\ UNCHANGED storageVars
    /\ UNCHANGED providerVars

\* React re-renders: useCallback([timerState]) makes start and pause anew
Render ==
    /\ mounted
    /\ Called("Render")
    /\ renderedTimerState # timerState
    /\ renderedTimerState' = timerState
    /\ UNCHANGED <<time, timerState, intervalRef, activeIntervals, nextIntervalId,
                   mounted, firedAfterTeardown>>
    /\ UNCHANGED reducerVars
    /\ UNCHANGED pureVars
    /\ UNCHANGED viewVars
    /\ UNCHANGED formVars
    /\ UNCHANGED debounceVars
    /\ UNCHANGED syncVars
    /\ UNCHANGED storageVars
    /\ UNCHANGED providerVars

\* the component unmounts: the cleanup of the mount effect runs
Unmount ==
    /\ mounted
    /\ Called("Unmount")
    /\ mounted' = FALSE
    /\ activeIntervals' = IF intervalRef # NullInterval
                          THEN clearInterval(activeIntervals, intervalRef)
                          ELSE activeIntervals
    /\ UNCHANGED <<time, timerState, renderedTimerState, intervalRef, nextIntervalId,
                   firedAfterTeardown>>
    /\ UNCHANGED reducerVars
    /\ UNCHANGED pureVars
    /\ UNCHANGED viewVars
    /\ UNCHANGED formVars
    /\ UNCHANGED debounceVars
    /\ UNCHANGED syncVars
    /\ UNCHANGED storageVars
    /\ UNCHANGED providerVars

InitTimer == Init

NextTimer ==
    \/ start
    \/ pause
    \/ reset
    \/ Tick
    \/ Render
    \/ Unmount

SpecTimer == InitTimer /\ [][NextTimer]_vars

\* -------------------------------------------- the adapter as plain functions
\* the collections an earlier session can have saved
SavedCollections == {<<>>} \cup SetTasksPayloads

\* what the key can hold when the application starts: nothing, a text that is
\* not JSON, JSON that is not an array (null, a number, an object), a collection
StoreContents ==
    {NoItem, Garbage}
        \cup {JSONstringify(JSValue(t, <<>>)) : t \in {"null", "number", "object"}}
        \cup {JSONstringify(JSArray(c)) : c \in SavedCollections}

\* the values a caller hands to saveToStorage, one of them cyclic, and the
\* defaults a caller hands to loadFromStorage
SaveValues == {JSArray(c) : c \in SavedCollections} \cup {JSNull, JSValue("cyclic", <<>>)}

LoadDefaults == {JSArray(<<>>), JSNull}

AdapterCalls ==
    {[op |-> "save", value |-> v] : v \in SaveValues}
        \cup {[op |-> "load", value |-> d] : d \in LoadDefaults}
        \cup {[op |-> o, value |-> JSNull] : o \in {"remove", "clear", "hasKey"}}

InitStorage ==
    /\ stored \in StoreContents
    /\ storeFails \in BOOLEAN
    /\ adapterCall \in AdapterCalls
    /\ adapterOutcome = NotDone
    /\ tasks = <<>>
    /\ now = 0
    /\ last = [type |-> "INIT", id |-> NullId]
    /\ thrown = FALSE
    /\ PureIdle
    /\ TimerIdle
    /\ SyncIdle
    /\ DebounceIdle
    /\ FormIdle
    /\ ViewIdle
    /\ ProviderIdle

\* the caller makes the call and gets its result, or the exception
Call ==
    /\ ~adapterOutcome.done
    /\ adapterOutcome' =
          CASE adapterCall.op = "save" -> saveToStorage(stored, storeFails, adapterCall.value)
            [] adapterCall.op = "load" -> loadFromStorage(stored, storeFails, adapterCall.value)
            [] adapterCall.op = "remove" -> removeFromStorage(stored, storeFails)
            [] adapterCall.op = "clear" -> clearStorage(stored, storeFails)
            [] adapterCall.op = "hasKey" -> hasKey(stored, storeFails)
    /\ stored' = adapterOutcome'.item
    /\ UNCHANGED <<storeFails, adapterCall>>
    /\ UNCHANGED reducerVars
    /\ UNCHANGED pureVars
    /\ UNCHANGED timerVars
    /\ UNCHANGED viewVars
    /\ UNCHANGED formVars
    /\ UNCHANGED debounceVars
    /\ UNCHANGED syncVars
    /\ UNCHANGED providerVars

NextStorage == Call

SpecStorage == InitStorage /\ [][NextStorage]_vars

\* ------------------------------------------------ the provider and the store
\* the payload of the one form submission the provider model makes
ProviderPayload == FormPayload("a", NullDate)

InitProvider ==
    /\ stored \in StoreContents
    /\ storeFails \in BOOLEAN
    /\ strictMode \in BOOLEAN
    /\ adapterCall = [op |-> "none", value |-> JSNull]
    /\ adapterOutcome = NotDone
    /\ providerState = "initial"
    /\ tasks = <<>>
    /\ tasksType = "array"
    /\ loads = 0
    /\ saveDue = FALSE
    /\ saveOk = FALSE
    /\ statusIntervals = {}
    /\ nextStatusId = 1
    /\ recomputedAfterTeardown = FALSE
    /\ crashed = FALSE
    /\ lastSaved = NothingSaved
    /\ hydrated = NotHydrated
    /\ now = 0
    /\ last = [type |-> "INIT", id |-> NullId]
    /\ thrown = FALSE
    /\ PureIdle
    /\ TimerIdle
    /\ SyncIdle
    /\ DebounceIdle
    /\ FormIdle
    /\ ViewIdle

\* the first render: useReducer runs the initializer, which loads the collection;
\* StrictMode renders the component twice and so runs the initializer twice
ProviderRender ==
    /\ providerState = "initial"
    /\ LET savedTasks == loadFromStorage(stored, storeFails, JSArray(<<>>)).result
       IN  /\ tasks' = savedTasks.items
           /\ tasksType' = savedTasks.type
           /\ hydrated' = [ok |-> ~storeFails, value |-> savedTasks, previous |-> lastSaved]
    /\ loads' = loads + (IF strictMode THEN 2 ELSE 1)
    /\ providerState' = "rendered"
    /\ saveDue' = TRUE
    /\ last' = [type |-> "MOUNT", id |-> NullId]
    /\ UNCHANGED <<now, thrown, strictMode, saveOk, statusIntervals, nextStatusId,
                   recomputedAfterTeardown, crashed, lastSaved>>
    /\ UNCHANGED storageVars
    /\ UNCHANGED pureVars
    /\ UNCHANGED timerVars
    /\ UNCHANGED viewVars
    /\ UNCHANGED formVars
    /\ UNCHANGED debounceVars
    /\ UNCHANGED syncVars

\* the save effect: saveToStorage(STORAGE_KEYS.TASKS, tasks)
SaveTasks ==
    LET outcome == saveToStorage(stored, storeFails, JSValue(tasksType, tasks))
    IN  /\ stored' = outcome.item
        /\ saveOk' = outcome.result
        /\ saveDue' = FALSE
        /\ lastSaved' = IF outcome.result
                        THEN [saved |-> TRUE, value |-> JSValue(tasksType, tasks)]
                        ELSE lastSaved

\* the effects of the first render run: the save effect, and the status effect
\* that makes the interval; StrictMode then runs the cleanups and the effects
\* again, in the same task
MountEffects ==
    /\ providerState = "rendered"
    /\ SaveTasks
    /\ IF strictMode
       THEN /\ statusIntervals' =
                  clearInterval(statusIntervals \cup {nextStatusId}, nextStatusId)
                      \cup {nextStatusId + 1}
            /\ nextStatusId' = nextStatusId + 2
       ELSE /\ statusIntervals' = statusIntervals \cup {nextStatusId}
            /\ nextStatusId' = nextStatusId + 1
    /\ providerState' = "mounted"
    /\ last' = [type |-> "EFFECTS", id |-> NullId]
    /\ UNCHANGED <<tasks, now, thrown, tasksType, strictMode, loads,
                   recomputedAfterTeardown, crashed, hydrated>>
    /\ UNCHANGED <<storeFails, adapterCall, adapterOutcome>>
    /\ UNCHANGED pureVars
    /\ UNCHANGED timerVars
    /\ UNCHANGED viewVars
    /\ UNCHANGED formVars
    /\ UNCHANGED debounceVars
    /\ UNCHANGED syncVars

\* the save effect of a later render runs
SaveEffect ==
    /\ providerState = "mounted"
    /\ saveDue
    /\ SaveTasks
    /\ last' = [type |-> "SAVE", id |-> NullId]
    /\ UNCHANGED <<tasks, now, thrown, tasksType, providerState, strictMode, loads,
                   statusIntervals, nextStatusId, recomputedAfterTeardown, crashed,
                   hydrated>>
    /\ UNCHANGED <<storeFails, adapterCall, adapterOutcome>>
    /\ UNCHANGED pureVars
    /\ UNCHANGED timerVars
    /\ UNCHANGED viewVars
    /\ UNCHANGED formVars
    /\ UNCHANGED debounceVars
    /\ UNCHANGED syncVars

\* the intents that do not read the collection they are given
ReplacingKinds == {TASK_ACTIONS.SET_TASKS, TASK_ACTIONS.CLEAR_ALL_TASKS}

\* dispatch(action) and the render that follows: the reducer spreads, maps or
\* filters the collection, which raises a TypeError when it is not an array
ProviderDispatch(action, rnd, id) ==
    /\ providerState = "mounted"
    /\ IF tasksType # "array" /\ action.type \notin ReplacingKinds
       THEN /\ crashed' = TRUE
            /\ UNCHANGED <<tasks, tasksType, saveDue>>
       ELSE /\ tasks' = taskReducer(tasks, action, now, rnd)
            /\ tasksType' = "array"
            /\ saveDue' = TRUE
            /\ UNCHANGED crashed
    /\ last' = [type |-> action.type, id |-> id]
    /\ UNCHANGED <<now, thrown, providerState, strictMode, loads, saveOk,
                   statusIntervals, nextStatusId, recomputedAfterTeardown, lastSaved,
                   hydrated>>
    /\ UNCHANGED storageVars
    /\ UNCHANGED pureVars
    /\ UNCHANGED timerVars
    /\ UNCHANGED viewVars
    /\ UNCHANGED formVars
    /\ UNCHANGED debounceVars
    /\ UNCHANGED syncVars

ProviderAdd ==
    /\ Len(tasks) < MaxTasks
    /\ \E rnd \in 0..(RandomRange - 1) :
          ProviderDispatch([type |-> TASK_ACTIONS.ADD_TASK, payload |-> ProviderPayload],
                           rnd, generateId(now, rnd))

ProviderToggle ==
    \E id \in IdsOf(tasks) :
        ProviderDispatch([type |-> TASK_ACTIONS.TOGGLE_COMPLETE, payload |-> [id |-> id]],
                         0, id)

ProviderClearAll ==
    ProviderDispatch([type |-> TASK_ACTIONS.CLEAR_ALL_TASKS], 0, NullId)

\* a live status interval fires: dispatch({ type: UPDATE_TASK_STATUS })
StatusTick ==
    \E handle \in statusIntervals :
        IF providerState = "mounted"
        THEN ProviderDispatch([type |-> TASK_ACTIONS.UPDATE_TASK_STATUS], 0, NullId)
        ELSE /\ recomputedAfterTeardown' = TRUE
             /\ UNCHANGED <<tasksType, providerState, strictMode, loads, saveDue, saveOk,
                            statusIntervals, nextStatusId, crashed, lastSaved, hydrated>>
             /\ UNCHANGED reducerVars
             /\ UNCHANGED storageVars
             /\ UNCHANGED pureVars
             /\ UNCHANGED timerVars
             /\ UNCHANGED viewVars
             /\ UNCHANGED formVars
             /\ UNCHANGED debounceVars
             /\ UNCHANGED syncVars

\* the provider unmounts (pending effects have run): the cleanup of the status
\* effect clears the interval its last run made
ProviderUnmount ==
    /\ providerState = "mounted"
    /\ ~saveDue
    /\ providerState' = "unmounted"
    /\ statusIntervals' = clearInterval(statusIntervals, nextStatusId - 1)
    /\ last' = [type |-> "UNMOUNT", id |-> NullId]
    /\ UNCHANGED <<tasks, now, thrown, tasksType, strictMode, loads, saveDue, saveOk,
                   nextStatusId, recomputedAfterTeardown, crashed, lastSaved, hydrated>>
    /\ UNCHANGED storageVars
    /\ UNCHANGED pureVars
    /\ UNCHANGED timerVars
    /\ UNCHANGED viewVars
    /\ UNCHANGED formVars
    /\ UNCHANGED debounceVars
    /\ UNCHANGED syncVars

\* the page is loaded again: the initializer of the next provider reads the
\* store as the last one left it; that session is not followed further
Reload ==
    /\ providerState = "unmounted"
    /\ LET savedTasks == loadFromStorage(stored, storeFails, JSArray(<<>>)).result
       IN  /\ tasks' = savedTasks.items
           /\ tasksType' = savedTasks.type
           /\ hydrated' = [ok |-> ~storeFails, value |-> savedTasks, previous |-> lastSaved]
    /\ loads' = IF strictMode THEN 2 ELSE 1
    /\ providerState' = "reloaded"
    /\ saveDue' = TRUE
    /\ last' = [type |-> "MOUNT", id |-> NullId]
    /\ UNCHANGED <<now, thrown, strictMode, saveOk, statusIntervals, nextStatusId,
                   recomputedAfterTeardown, crashed, lastSaved>>
    /\ UNCHANGED storageVars
    /\ UNCHANGED pureVars
    /\ UNCHANGED timerVars
    /\ UNCHANGED viewVars
    /\ UNCHANGED formVars
    /\ UNCHANGED debounceVars
    /\ UNCHANGED syncVars

\* the store starts or stops refusing every access
StoreFlip ==
    /\ storeFails' = ~storeFails
    /\ UNCHANGED <<stored, adapterCall, adapterOutcome>>
    /\ UNCHANGED reducerVars
    /\ UNCHANGED providerVars
    /\ UNCHANGED pureVars
    /\ UNCHANGED timerVars
    /\ UNCHANGED viewVars
    /\ UNCHANGED formVars
    /\ UNCHANGED debounceVars
    /\ UNCHANGED syncVars

NextProvider ==
    \/ ProviderRender
    \/ MountEffects
    \/ SaveEffect
    \/ ProviderAdd
    \/ ProviderToggle
    \/ ProviderClearAll
    \/ StatusTick
    \/ ProviderUnmount
    \/ Reload
    \/ StoreFlip

SpecProvider == InitProvider /\ [][NextProvider]_vars

\* ------------------------------------------- the Timer component of one task
\* the id of the task whose TaskItem renders the Timer
TimedId == generateId(0, 0)

\* the task as the provider hydrated it, its timer having run for e seconds
TimedTask(e) ==
    [id |-> TimedId, title |-> "a", deadline |-> NullDate, elapsedTime |-> e,
     status |-> TASK_STATUS.ACTIVE, createdAt |-> 0, updatedAt |-> 0]

HasTimedTask == TimedId \in IdsOf(tasks)

\* <Timer initialTime={task.elapsedTime || 0} />: the prop the next render will
\* carry; once the task is gone its TaskItem is rendered no more
PropInitialTime ==
    IF HasTimedTask
    THEN (CHOOSE t \in {tasks[i] : i \in 1..Len(tasks)} : t.id = TimedId).elapsedTime
    ELSE initialTimeProp

\* state or props differ from what the last render saw; a click is handled
\* by the closures of a render that saw the current state and props
NeedsRender ==
    /\ mounted
    /\ \/ time # renderedTime
       \/ timerState # renderedTimerState
       \/ PropInitialTime # initialTimeProp

InitTimerSync ==
    /\ \E e \in 0..MaxElapsed :
          /\ tasks = <<TimedTask(e)>>
          /\ time = e
          /\ initialTimeProp = e
          /\ renderedTime = e
          /\ constructedWith = e
          /\ timerLast = [op |-> "none", timerState |-> TIMER_STATE.IDLE, time |-> e,
                          activeIntervals |-> {}]
    /\ sinceReset = FALSE
    /\ deletedIds = {}
    /\ timerState = TIMER_STATE.IDLE
    /\ renderedTimerState = TIMER_STATE.IDLE
    /\ intervalRef = NullInterval
    /\ activeIntervals = {}
    /\ nextIntervalId = 1
    /\ mounted = TRUE
    /\ firedAfterTeardown = FALSE
    /\ now = 0
    /\ last = [type |-> "INIT", id |-> NullId]
    /\ thrown = FALSE
    /\ PureIdle
    /\ StorageIdle
    /\ ProviderIdle
    /\ DebounceIdle
    /\ FormIdle
    /\ ViewIdle

\* the Start/Resume button, rendered while the timer is not running
ClickStart ==
    /\ ~NeedsRender
    /\ renderedTimerState # TIMER_STATE.RUNNING
    /\ start

\* the Pause button, rendered while the timer is running
ClickPause ==
    /\ ~NeedsRender
    /\ renderedTimerState = TIMER_STATE.RUNNING
    /\ pause

\* the Reset button, rendered while time > 0: handleReset calls reset(), which
\* reads the initialTime of the render that made it, and dispatches RESET_TIMER
handleReset ==
    /\ mounted
    /\ ~NeedsRender
    /\ renderedTime > 0
    /\ Called("handleReset")
    /\ IF intervalRef # NullInterval
       THEN /\ activeIntervals' = clearInterval(activeIntervals, intervalRef)
            /\ intervalRef' = NullInterval
       ELSE UNCHANGED <<intervalRef, activeIntervals>>
    /\ time' = initialTimeProp
    /\ timerState' = TIMER_STATE.IDLE
    /\ tasks' = taskReducer(tasks, [type |-> TASK_ACTIONS.RESET_TIMER,
                                    payload |-> [id |-> TimedId]], now, 0)
    /\ last' = [type |-> TASK_ACTIONS.RESET_TIMER, id |-> TimedId]
    /\ sinceReset' = TRUE
    /\ UNCHANGED <<now, thrown, renderedTimerState, nextIntervalId, mounted,
                   firedAfterTeardown, initialTimeProp, renderedTime, constructedWith,
                   deletedIds>>
    /\ UNCHANGED pureVars
    /\ UNCHANGED viewVars
    /\ UNCHANGED formVars
    /\ UNCHANGED debounceVars
    /\ UNCHANGED storageVars
    /\ UNCHANGED providerVars

\* React renders the Timer and runs the effects whose dependencies changed:
\* setTime(initialTime) on [initialTime], and the sync effect on [time,
\* timerState], which dispatches UPDATE_TIMER when time > 0 or the timer runs
TimerCommit ==
    /\ NeedsRender
    /\ Called("commit")
    /\ LET initialTime == PropInitialTime
           initEffect == initialTime # initialTimeProp
           syncEffect == /\ (time # renderedTime \/ timerState # renderedTimerState)
                         /\ (time > 0 \/ timerState = TIMER_STATE.RUNNING)
       IN  /\ time' = IF initEffect THEN initialTime ELSE time
           /\ IF syncEffect
              THEN /\ tasks' = taskReducer(tasks,
                                   [type |-> TASK_ACTIONS.UPDATE_TIMER,
                                    payload |-> [id |-> TimedId, elapsedTime |-> time]],
                                   now, 0)
                   /\ last' = [type |-> TASK_ACTIONS.UPDATE_TIMER, id |-> TimedId]
              ELSE UNCHANGED <<tasks, last>>
           /\ initialTimeProp' = initialTime
    /\ renderedTime' = time
    /\ renderedTimerState' = timerState
    /\ UNCHANGED <<now, thrown, timerState, intervalRef, activeIntervals, nextIntervalId,
                   mounted, firedAfterTeardown, constructedWith, sinceReset, deletedIds>>
    /\ UNCHANGED pureVars
    /\ UNCHANGED viewVars
    /\ UNCHANGED formVars
    /\ UNCHANGED debounceVars
    /\ UNCHANGED storageVars
    /\ UNCHANGED providerVars

\* TaskItem.handleDelete: the user confirms, DELETE_TASK is dispatched
ClickDelete ==
    /\ HasTimedTask
    /\ tasks' = taskReducer(tasks, [type |-> TASK_ACTIONS.DELETE_TASK,
                                    payload |-> [id |-> TimedId]], now, 0)
    /\ last' = [type |-> TASK_ACTIONS.DELETE_TASK, id |-> TimedId]
    /\ deletedIds' = deletedIds \cup {TimedId}
    /\ UNCHANGED <<now, thrown, initialTimeProp, renderedTime, constructedWith, sinceReset>>
    /\ UNCHANGED timerVars
    /\ UNCHANGED viewVars
    /\ UNCHANGED formVars
    /\ UNCHANGED debounceVars
    /\ UNCHANGED pureVars
    /\ UNCHANGED viewVars
    /\ UNCHANGED formVars
    /\ UNCHANGED debounceVars
    /\ UNCHANGED storageVars
    /\ UNCHANGED providerVars

\* the render without the task's TaskItem: its Timer unmounts
TimerUnmount ==
    /\ ~HasTimedTask
    /\ Unmount

\* an intent for the id that was made before the task went and arrives after:
\* the edit form's Update, a ToggleComplete, a timer intent, the periodic recompute
LateIntents ==
    {[type |-> TASK_ACTIONS.UPDATE_TASK, payload |-> taskData(TimedTask(e), "b", 1)] :
        e \in 0..MaxElapsed}
      \cup {[type |-> TASK_ACTIONS.TOGGLE_COMPLETE, payload |-> [id |-> TimedId]],
            [type |-> TASK_ACTIONS.RESET_TIMER, payload |-> [id |-> TimedId]],
            [type |-> TASK_ACTIONS.UPDATE_TASK_STATUS]}
      \cup {[type |-> TASK_ACTIONS.UPDATE_TIMER,
             payload |-> [id |-> TimedId, elapsedTime |-> e]] : e \in 0..MaxElapsed}

LateDispatch ==
    /\ TimedId \in deletedIds
    /\ \E action \in LateIntents : Dispatch(action, 0, TimedId)

\* the provider's save effect stores the collection
SyncSave ==
    /\ stored # JSONstringify(JSArray(tasks))
    /\ stored' = saveToStorage(stored, storeFails, JSArray(tasks)).item
    /\ UNCHANGED <<storeFails, adapterCall, adapterOutcome>>
    /\ UNCHANGED reducerVars
    /\ UNCHANGED pureVars
    /\ UNCHANGED timerVars
    /\ UNCHANGED viewVars
    /\ UNCHANGED formVars
    /\ UNCHANGED debounceVars
    /\ UNCHANGED syncVars
    /\ UNCHANGED providerVars

NextTimerSync ==
    \/ ClickStart
    \/ ClickPause
    \/ handleReset
    \/ Tick
    \/ TimerCommit
    \/ ClickDelete
    \/ TimerUnmount
    \/ LateDispatch
    \/ SyncSave

SpecTimerSync == InitTimerSync /\ [][NextTimerSync]_vars

\* --------------------------------------------------------------- useDebounce
\* the values the caller passes, e.g. what the user has typed so far
InputValues == {"", "a", "ab"}

clearTimeout_Forgets(timeouts, id) == timeouts

\* clearTimeout(timeoutId)
clearTimeout(timeouts, id) == {t \in timeouts : t.id # id}

\* setTimeout(() => setDebouncedValue(value), delay)
setTimeout(timeouts, id, value) ==
    timeouts \cup {[id |-> id, value |-> value, remaining |-> DebounceDelay]}

\* useDebounce(value): the first render and its effect, which arms a timeout
InitDebounce ==
    /\ \E v \in InputValues :
          /\ dbValue = v
          /\ debouncedValue = v
          /\ dbTimeouts = setTimeout({}, 1, v)
    /\ dbNextId = 2
    /\ dbMounted = TRUE
    /\ dbQuiet = 0
    /\ dbFiredAfterTeardown = FALSE
    /\ tasks = <<>>
    /\ now = 0
    /\ last = [type |-> "INIT", id |-> NullId]
    /\ thrown = FALSE
    /\ PureIdle
    /\ TimerIdle
    /\ SyncIdle
    /\ FormIdle
    /\ ViewIdle
    /\ StorageIdle
    /\ ProviderIdle

\* a render with another value: the cleanup of the last effect run clears the
\* timeout that run made, then the effect arms a new one
ChangeValue ==
    /\ dbMounted
    /\ dbNextId <= MaxTimeouts
    /\ \E v \in InputValues \ {dbValue} :
          /\ dbValue' = v
          /\ dbTimeouts' = setTimeout(clearTimeout(dbTimeouts, dbNextId - 1), dbNextId, v)
    /\ dbNextId' = dbNextId + 1
    /\ dbQuiet' = 0
    /\ UNCHANGED <<debouncedValue, dbMounted, dbFiredAfterTeardown>>
    /\ UNCHANGED reducerVars
    /\ UNCHANGED pureVars
    /\ UNCHANGED timerVars
    /\ UNCHANGED viewVars
    /\ UNCHANGED formVars
    /\ UNCHANGED syncVars
    /\ UNCHANGED storageVars
    /\ UNCHANGED providerVars

\* one unit of time passes; a timeout that is due runs before more time passes
Elapse ==
    /\ \A t \in dbTimeouts : t.remaining > 0
    /\ dbTimeouts # {} \/ dbQuiet < DebounceDelay
    /\ dbTimeouts' = {[t EXCEPT !.remaining = t.remaining - 1] : t \in dbTimeouts}
    /\ dbQuiet' = IF dbQuiet < DebounceDelay THEN dbQuiet + 1 ELSE dbQuiet
    /\ UNCHANGED <<dbValue, debouncedValue, dbNextId, dbMounted, dbFiredAfterTeardown>>
    /\ UNCHANGED reducerVars
    /\ UNCHANGED pureVars
    /\ UNCHANGED timerVars
    /\ UNCHANGED viewVars
    /\ UNCHANGED formVars
    /\ UNCHANGED syncVars
    /\ UNCHANGED storageVars
    /\ UNCHANGED providerVars

\* a due timeout runs its callback: setDebouncedValue(value) with the value of
\* the render that armed it; after the unmount the state update is dropped
Fire ==
    /\ \E t \in dbTimeouts :
          /\ t.remaining = 0
          /\ dbTimeouts' = dbTimeouts \ {t}
          /\ IF dbMounted
             THEN /\ debouncedValue' = t.value
                  /\ UNCHANGED dbFiredAfterTeardown
             ELSE /\ dbFiredAfterTeardown' = TRUE
                  /\ UNCHANGED debouncedValue
    /\ UNCHANGED <<dbValue, dbNextId, dbMounted, dbQuiet>>
    /\ UNCHANGED reducerVars
    /\ UNCHANGED pureVars
    /\ UNCHANGED timerVars
    /\ UNCHANGED viewVars
    /\ UNCHANGED formVars
    /\ UNCHANGED syncVars
    /\ UNCHANGED storageVars
    /\ UNCHANGED providerVars

\* the component unmounts: the cleanup clears the timeout of the last effect run
DebounceUnmount ==
    /\ dbMounted
    /\ dbMounted' = FALSE
    /\ dbTimeouts' = clearTimeout(dbTimeouts, dbNextId - 1)
    /\ UNCHANGED <<dbValue, debouncedValue, dbNextId, dbQuiet, dbFiredAfterTeardown>>
    /\ UNCHANGED reducerVars
    /\ UNCHANGED pureVars
    /\ UNCHANGED timerVars
    /\ UNCHANGED viewVars
    /\ UNCHANGED formVars
    /\ UNCHANGED syncVars
    /\ UNCHANGED storageVars
    /\ UNCHANGED providerVars

NextDebounce ==
    \/ ChangeValue
    \/ Elapse
    \/ Fire
    \/ DebounceUnmount

\* time passes and due timeouts run
SpecDebounce ==
    /\ InitDebounce
    /\ [][NextDebounce]_vars
    /\ WF_vars(Elapse)
    /\ WF_vars(Fire)

\* ------------------------------------------------------ validation and TaskForm
TASK_TYPE == [ONE_DAY |-> "one-day", DATE_RANGE |-> "date-range"]

VALIDATION_MESSAGES ==
    [TITLE_REQUIRED |-> "Task title is required",
     TITLE_MIN_LENGTH |-> "Title must be at least 3 characters",
     DESCRIPTION_MIN_LENGTH |-> "Description must be at least 10 characters",
     HOURS_INVALID |-> "Allocated hours must be greater than 0",
     DEADLINE_INVALID |-> "Deadline must be a future date",
     REPETITION_DAYS_REQUIRED |-> "Please select at least one day for repetitive tasks",
     DATE_RANGE_INVALID |-> "End date must be after start date"]

\* a validator's return value when the field is fine
NoError == "null"

TitleMinLength == 3
DescriptionMinLength == 10

\* the value '' of a date input; a date text "YYYY-MM-DD" is held as the instant
\* new Date(text) reads from it, midnight UTC of that day
EmptyInput == -2

\* a text is the sequence of its characters
Chars(n) == [i \in 1..n |-> "x"]

RECURSIVE TrimStart(_)
TrimStart(s) == IF s # <<>> /\ Head(s) = " " THEN TrimStart(Tail(s)) ELSE s

RECURSIVE TrimEnd(_)
TrimEnd(s) ==
    IF s # <<>> /\ s[Len(s)] = " " THEN TrimEnd(SubSeq(s, 1, Len(s) - 1)) ELSE s

\* String.prototype.trim
Trim(s) == TrimEnd(TrimStart(s))

\* Number(text) of what a number input holds
Number(text) ==
    CASE text = "" -> 0
      [] text = "0" -> 0
      [] text = "2" -> 2
      [] text = "-1" -> 0 - 1

\* !date: null and '' are falsy
NoDate(date) == date = NullDate \/ date = EmptyInput

\* today = new Date(); today.setHours(0, 0, 0, 0): the instant of the local midnight
LocalMidnight(clock, tz) == Midnight(clock + tz) - tz

\* toInputDate(date): the text of the local calendar day of new Date(date)
toInputDate(date, tz) == IF NoDate(date) THEN EmptyInput ELSE Midnight(date + tz)

validateTitle(title) ==
    IF Len(title) = 0 \/ Len(Trim(title)) = 0
    THEN VALIDATION_MESSAGES.TITLE_REQUIRED
    ELSE IF Len(Trim(title)) < TitleMinLength
         THEN VALIDATION_MESSAGES.TITLE_MIN_LENGTH
         ELSE NoError

validateDescription(description) ==
    IF Len(description) = 0 \/ Len(Trim(description)) = 0
    THEN NoError
    ELSE IF Len(Trim(description)) < DescriptionMinLength
         THEN VALIDATION_MESSAGES.DESCRIPTION_MIN_LENGTH
         ELSE NoError

validateHours(hours) ==
    IF hours <= 0 THEN VALIDATION_MESSAGES.HOURS_INVALID ELSE NoError

validateDeadline(deadline, clock, tz) ==
    IF NoDate(deadline)
    THEN NoError
    ELSE IF deadline < LocalMidnight(clock, tz)
         THEN VALIDATION_MESSAGES.DEADLINE_INVALID
         ELSE NoError

validateRepetitionDays(isRepetitive, repetitionDays) ==
    IF ~isRepetitive
    THEN NoError
    ELSE IF Len(repetitionDays) = 0
         THEN VALIDATION_MESSAGES.REPETITION_DAYS_REQUIRED
         ELSE NoError

validateDateRange(startDate, endDate) ==
    IF NoDate(startDate) \/ NoDate(endDate)
    THEN NoError
    ELSE IF endDate < startDate
         THEN VALIDATION_MESSAGES.DATE_RANGE_INVALID
         ELSE NoError

\* if (error) errors.key = error
ErrorEntry(key, error) ==
    IF error # NoError THEN {[key |-> key, message |-> error]} ELSE {}

\* the errors object is the set of its entries; a field the task lacks reads as
\* undefined, which every validator treats like the falsy value of the field
validateTask(task, clock, tz) ==
    ErrorEntry("title", validateTitle(Get(task, "title", <<>>)))
        \cup ErrorEntry("description", validateDescription(Get(task, "description", <<>>)))
        \cup (IF Get(task, "allocatedHours", 0) # 0
              THEN ErrorEntry("allocatedHours", validateHours(task.allocatedHours))
              ELSE {})
        \cup ErrorEntry("deadline",
                        validateDeadline(Get(task, "deadline", NullDate), clock, tz))
        \cup ErrorEntry("repetitionDays",
                        validateRepetitionDays(Get(task, "isRepetitive", FALSE),
                                               Get(task, "repetitionDays", <<>>)))
        \cup ErrorEntry("dateRange",
                        validateDateRange(Get(task, "startDate", NullDate),
                                          Get(task, "endDate", NullDate)))

\* Object.keys(errors)
Keys(errors) == {e.key : e \in errors}

hasErrors_Never(errors) == FALSE

hasErrors(errors) == Cardinality(Keys(errors)) > 0

\* what the user can put into the fields
Titles == {<<>>, <<" ", " ", " ">>, <<"a", "b", " ">>, <<" ", "a", "b", "c">>}
Descriptions == {<<>>, Chars(DescriptionMinLength - 1) \o <<" ">>, Chars(DescriptionMinLength)}
HoursInputs == {"", "2", "-1"}
DayIds == {"monday"}
DateInputs == {EmptyInput} \cup {Midnight(c) : c \in 0..MaxClock}
TzOffsets == {0 - 1, 0}

\* the task of the form that edits
EditedTask ==
    [id |-> generateId(0, 0), title |-> <<"a", "b", "c">>, description |-> <<>>,
     isRepetitive |-> FALSE, repetitionDays |-> <<>>, allocatedHours |-> 0,
     deadline |-> NullDate, taskType |-> TASK_TYPE.DATE_RANGE,
     startDate |-> Midnight(MaxClock), endDate |-> Midnight(MaxClock),
     elapsedTime |-> 0, status |-> TASK_STATUS.ACTIVE, createdAt |-> 0, updatedAt |-> 0]

\* existingTask = null
NoExisting == [id |-> NullId]

isEditing == formExisting # NoExisting

\* the useState initial values of a form that adds
NewForm(clock, tz) ==
    [title |-> <<>>, description |-> <<>>, isRepetitive |-> FALSE,
     repetitionDays |-> <<>>, allocatedHours |-> "0", deadline |-> EmptyInput,
     taskType |-> TASK_TYPE.ONE_DAY, startDate |-> toInputDate(clock, tz),
     endDate |-> EmptyInput]

\* the useState initial values of a form that edits; the task's allocatedHours
\* is 0, so the field starts from existingTask?.allocatedHours || 0
EditForm(task, tz) ==
    [title |-> task.title, description |-> task.description,
     isRepetitive |-> task.isRepetitive, repetitionDays |-> task.repetitionDays,
     allocatedHours |-> "0", deadline |-> toInputDate(task.deadline, tz),
     taskType |-> task.taskType, startDate |-> toInputDate(task.startDate, tz),
     endDate |-> toInputDate(task.endDate, tz)]

\* the field states after a successful add
ClearedForm ==
    [title |-> <<>>, description |-> <<>>, isRepetitive |-> FALSE,
     repetitionDays |-> <<>>, allocatedHours |-> "0", deadline |-> EmptyInput,
     taskType |-> TASK_TYPE.ONE_DAY, startDate |-> EmptyInput, endDate |-> EmptyInput]

\* value || null
OrNull(date) == IF NoDate(date) THEN NullDate ELSE date

\* handleSubmit's taskData
submittedTaskData(f, existing) ==
    Spread(IF existing # NoExisting THEN Spread(DEFAULT_TASK, existing) ELSE DEFAULT_TASK,
           [title |-> Trim(f.title), description |-> Trim(f.description),
            isRepetitive |-> f.isRepetitive, repetitionDays |-> f.repetitionDays,
            allocatedHours |-> Number(f.allocatedHours),
            deadline |-> OrNull(f.deadline), taskType |-> f.taskType,
            startDate |-> OrNull(f.startDate),
            endDate |-> IF f.taskType = TASK_TYPE.DATE_RANGE THEN f.endDate ELSE NullDate])

InitForm ==
    /\ now \in 1..MaxClock
    /\ tzOffset \in TzOffsets
    /\ \/ /\ formExisting = NoExisting
          /\ tasks = <<>>
          /\ form = NewForm(now, tzOffset)
       \/ /\ formExisting = EditedTask
          /\ tasks = <<EditedTask>>
          /\ form = EditForm(EditedTask, tzOffset)
    /\ formErrors = {}
    /\ formSubmits = 0
    /\ formLast = [intent |-> "none"]
    /\ last = [type |-> "INIT", id |-> NullId]
    /\ thrown = FALSE
    /\ PureIdle
    /\ TimerIdle
    /\ SyncIdle
    /\ DebounceIdle
    /\ ViewIdle
    /\ StorageIdle
    /\ ProviderIdle

\* the rest of an edit of one field
Edited ==
    /\ formSubmits < MaxSubmits
    /\ UNCHANGED <<formErrors, formExisting, tzOffset, formSubmits, formLast>>
    /\ UNCHANGED reducerVars
    /\ UNCHANGED pureVars
    /\ UNCHANGED timerVars
    /\ UNCHANGED viewVars
    /\ UNCHANGED syncVars
    /\ UNCHANGED debounceVars
    /\ UNCHANGED storageVars
    /\ UNCHANGED providerVars

SetTitle ==
    /\ \E v \in Titles : form' = [form EXCEPT !.title = v]
    /\ Edited

SetDescription ==
    /\ \E v \in Descriptions : form' = [form EXCEPT !.description = v]
    /\ Edited

SetIsRepetitive ==
    /\ \E v \in BOOLEAN : form' = [form EXCEPT !.isRepetitive = v]
    /\ Edited

RECURSIVE Without(_, _)
\* prevDays.filter(id => id !== dayId)
Without(days, dayId) ==
    IF days = <<>> THEN <<>>
    ELSE IF Head(days) # dayId
         THEN <<Head(days)>> \o Without(Tail(days), dayId)
         ELSE Without(Tail(days), dayId)

handleDayToggle ==
    /\ \E dayId \in DayIds :
          form' = [form EXCEPT !.repetitionDays =
                      IF \E i \in 1..Len(@) : @[i] = dayId
                      THEN Without(@, dayId)
                      ELSE Append(@, dayId)]
    /\ Edited

SetAllocatedHours ==
    /\ \E v \in HoursInputs : form' = [form EXCEPT !.allocatedHours = v]
    /\ Edited

SetDeadline ==
    /\ \E v \in DateInputs : form' = [form EXCEPT !.deadline = v]
    /\ Edited

SetTaskType ==
    /\ \E v \in {TASK_TYPE.ONE_DAY, TASK_TYPE.DATE_RANGE} :
          form' = [form EXCEPT !.taskType = v]
    /\ Edited

SetStartDate ==
    /\ \E v \in DateInputs : form' = [form EXCEPT !.startDate = v]
    /\ Edited

SetEndDate ==
    /\ form.taskType = TASK_TYPE.DATE_RANGE
    /\ \E v \in DateInputs : form' = [form EXCEPT !.endDate = v]
    /\ Edited

\* the form's onSubmit
handleSubmit ==
    /\ formSubmits < MaxSubmits
    /\ formSubmits' = formSubmits + 1
    /\ LET taskData_ == submittedTaskData(form, formExisting)
           validationErrors == validateTask(taskData_, now, tzOffset)
           type == IF isEditing THEN TASK_ACTIONS.UPDATE_TASK ELSE TASK_ACTIONS.ADD_TASK
       IN  IF hasErrors(validationErrors)
           THEN /\ formErrors' = validationErrors
                /\ formLast' = [intent |-> "none", data |-> taskData_, before |-> tasks]
                /\ UNCHANGED <<form, tasks, last>>
           ELSE /\ formErrors' = {}
                /\ \E rnd \in 0..(RandomRange - 1) :
                      /\ tasks' = taskReducer(tasks, [type |-> type, payload |-> taskData_],
                                              now, rnd)
                      /\ last' = [type |-> type,
                                  id |-> IF isEditing THEN taskData_.id
                                         ELSE generateId(now, rnd)]
                /\ formLast' = [intent |-> type, data |-> taskData_, before |-> tasks]
                /\ form' = IF isEditing THEN form ELSE ClearedForm
    /\ UNCHANGED <<formExisting, tzOffset, now, thrown>>
    /\ UNCHANGED pureVars
    /\ UNCHANGED timerVars
    /\ UNCHANGED viewVars
    /\ UNCHANGED syncVars
    /\ UNCHANGED debounceVars
    /\ UNCHANGED storageVars
    /\ UNCHANGED providerVars

NextForm ==
    \/ SetTitle
    \/ SetDescription
    \/ SetIsRepetitive
    \/ handleDayToggle
    \/ SetAllocatedHours
    \/ SetDeadline
    \/ SetTaskType
    \/ SetStartDate
    \/ SetEndDate
    \/ handleSubmit

SpecForm == InitForm /\ [][NextForm]_vars

\* ------------------------------------------------------- TaskList and Calendar
\* the instant a date text of day d reads as: midnight UTC of the day
DayStart(d) == d * TicksPerDay

\* date.toDateString(): the local calendar day of an instant, days counted from
\* the epoch
DayKey(instant, tz) == (instant + tz) \div TicksPerDay

DaysPerWeek == 7

\* the day of the week of the epoch, a Thursday
EpochWeekday == 4

DayNames == <<"sunday", "monday", "tuesday", "wednesday", "thursday", "friday", "saturday">>

\* date.getDay()
getDay(day) == (day + EpochWeekday) % DaysPerWeek

getDayName(day) == DayNames[getDay(day) + 1]

getMonthStart(month) == month * MonthLength

getMonthEnd(month) == month * MonthLength + MonthLength - 1

\* the days of the month with the days before and after that fill its weeks
getMonthDays(month) ==
    LET startDay == getDay(getMonthStart(month))
        endDay == getDay(getMonthEnd(month))
        first == getMonthStart(month) - startDay
        lastDay == getMonthEnd(month) + (DaysPerWeek - (endDay + 1))
    IN  [i \in 1..(lastDay - first + 1) |-> first + i - 1]

\* array.includes(task): the task object is the element i of the collection
Includes(bucket, i) == \E j \in 1..Len(bucket) : bucket[j] = i

\* map.get(dateKey).push(task), on the array of the key
Push(bucket, i) == Append(bucket, i)

PushOnce_Always(bucket, i) == Push(bucket, i)

\* if (!map.get(dateKey).includes(task)) map.get(dateKey).push(task)
PushOnce(bucket, i) == IF Includes(bucket, i) THEN bucket ELSE Push(bucket, i)

\* new Date(task.startDate): null reads as the epoch
DateOf(date) == IF date = NullDate THEN 0 ELSE date

\* the keys of for (let d = new Date(start); d <= end; d.setDate(d.getDate() + 1))
RangeKeys(task, tz) ==
    IF task.taskType = TASK_TYPE.DATE_RANGE /\ task.endDate # NullDate
          /\ DateOf(task.startDate) <= task.endDate
    THEN {DayKey(DateOf(task.startDate), tz) + n :
            n \in 0..((task.endDate - DateOf(task.startDate)) \div TicksPerDay)}
    ELSE {}

\* the keys of the calendar days whose name is in task.repetitionDays
RepeatKeys(task, calendarDays) ==
    IF task.isRepetitive /\ Len(task.repetitionDays) > 0
    THEN {calendarDays[d] : d \in {e \in 1..Len(calendarDays) :
            \E j \in 1..Len(task.repetitionDays) :
                task.repetitionDays[j] = getDayName(calendarDays[e])}}
    ELSE {}

StartKeys(task, tz) ==
    IF task.startDate # NullDate THEN {DayKey(task.startDate, tz)} ELSE {}

\* what the body of tasks.forEach does to the array of one key, for the task at
\* index i: the push by startDate, then the range's, then the repetition's
AddToBucket(bucket, task, i, key, calendarDays, tz) ==
    LET byStart == IF key \in StartKeys(task, tz) THEN Push(bucket, i) ELSE bucket
        byRange == IF key \in RangeKeys(task, tz) THEN PushOnce(byStart, i) ELSE byStart
    IN  IF key \in RepeatKeys(task, calendarDays) THEN PushOnce(byRange, i) ELSE byRange

RECURSIVE BucketOf(_, _, _, _, _)
\* the array of a key after the first n tasks
BucketOf(state, n, key, calendarDays, tz) ==
    IF n = 0 THEN <<>>
    ELSE AddToBucket(BucketOf(state, n - 1, key, calendarDays, tz), state[n], n, key,
                     calendarDays, tz)

\* the keys map.set was called for
MapKeys(state, calendarDays, tz) ==
    UNION {StartKeys(state[i], tz) \cup RangeKeys(state[i], tz)
              \cup RepeatKeys(state[i], calendarDays) : i \in 1..Len(state)}

\* the tasksByDate memo
TasksByDate(state, month, tz) ==
    [key \in MapKeys(state, getMonthDays(month), tz) |->
        BucketOf(state, Len(state), key, getMonthDays(month), tz)]

\* a.title.localeCompare(b.title)
localeCompare(a, b) ==
    LET rank == [t \in {"a", "b"} |-> IF t = "a" THEN 1 ELSE 2]
    IN  rank[a] - rank[b]

Compare_NullFirst(a, b, by) ==
    CASE by = "createdAt" -> b.createdAt - a.createdAt
      [] by = "deadline" ->
            IF a.deadline = NullDate THEN 0 - 1
            ELSE IF b.deadline = NullDate THEN 1
                 ELSE a.deadline - b.deadline
      [] by = "title" -> localeCompare(a.title, b.title)
      [] OTHER -> 0

\* the sort's comparator
Compare(a, b, by) ==
    CASE by = "createdAt" -> b.createdAt - a.createdAt
      [] by = "deadline" ->
            IF a.deadline = NullDate THEN 1
            ELSE IF b.deadline = NullDate THEN 0 - 1
                 ELSE a.deadline - b.deadline
      [] by = "title" -> localeCompare(a.title, b.title)
      [] OTHER -> 0

\* the orders in which an engine's sort hands a pair to the comparator
SortOrders == {"element first", "inserted first"}

\* whether element e goes after the inserted x
GoesAfter(e, x, by, order) ==
    IF order = "element first" THEN Compare(e, x, by) > 0 ELSE Compare(x, e, by) < 0

RECURSIVE InsertAt(_, _, _, _, _)
\* the place of x in a sorted array, searched from its end
InsertAt(sorted, x, j, by, order) ==
    IF j >= 1 /\ GoesAfter(sorted[j], x, by, order)
    THEN InsertAt(sorted, x, j - 1, by, order)
    ELSE SubSeq(sorted, 1, j) \o <<x>> \o SubSeq(sorted, j + 1, Len(sorted))

RECURSIVE SortInto(_, _, _, _)
\* Array.prototype.sort of a short array: an insertion sort
SortInto(sorted, rest, by, order) ==
    IF rest = <<>> THEN sorted
    ELSE SortInto(InsertAt(sorted, Head(rest), Len(sorted), by, order), Tail(rest), by, order)

RECURSIVE FilterByStatus(_, _)
\* result.filter(task => task.status === filterStatus)
FilterByStatus(state, status) ==
    IF state = <<>> THEN <<>>
    ELSE IF Head(state).status = status
         THEN <<Head(state)>> \o FilterByStatus(Tail(state), status)
         ELSE FilterByStatus(Tail(state), status)

\* step 1 of the memo; without a filter the result is the collection itself
Filtered(state, status) == IF status = "all" THEN state ELSE FilterByStatus(state, status)

\* whether sort() works on the collection's own array: [...result] is a new
\* array, so it never does
SortsCollection(status) == FALSE

\* the filteredAndSortedTasks memo
FilteredAndSorted(state, status, by, order) == SortInto(<<>>, Filtered(state, status), by, order)

\* the tasks the views are given: a deadline or none, and either an active
\* task "a" whose schedule matches a day by all three rules or a completed
\* one-day task "b"
ViewTask(i, title, deadline) ==
    [id |-> generateId(i, 0), title |-> title, deadline |-> deadline,
     status |-> IF title = "a" THEN TASK_STATUS.ACTIVE ELSE TASK_STATUS.COMPLETED,
     createdAt |-> i, updatedAt |-> i, elapsedTime |-> 0,
     taskType |-> IF title = "a" THEN TASK_TYPE.DATE_RANGE ELSE TASK_TYPE.ONE_DAY,
     startDate |-> DayStart(0),
     endDate |-> IF title = "a" THEN DayStart(1) ELSE NullDate,
     isRepetitive |-> (title = "a"),
     repetitionDays |-> IF title = "a" THEN <<getDayName(0), getDayName(1)>> ELSE <<>>]

ViewDeadlines == {NullDate, DayStart(0), DayStart(1)}

ViewCollections ==
    UNION {{[i \in 1..n |-> ViewTask(i, f[i][1], f[i][2])] :
              f \in [1..n -> {"a", "b"} \X ViewDeadlines]} : n \in 0..MaxViewTasks}

FilterValues == {"all", TASK_STATUS.ACTIVE, TASK_STATUS.COMPLETED}
SortValues == {"createdAt", "deadline", "title"}

\* a render of the list: the memo is computed, the sort working in place on the
\* array it was called on
RenderList(status, by) ==
    \E order \in SortOrders :
        LET result == FilteredAndSorted(tasks, status, by, order)
        IN  /\ filteredAndSortedTasks' = result
            /\ tasks' = IF SortsCollection(status) THEN result ELSE tasks

InitViews ==
    /\ now \in 1..MaxClock
    /\ tzOffset \in TzOffsets
    /\ tasks \in ViewCollections
    /\ viewInput = tasks
    /\ filterStatus = "all"
    /\ sortBy = "createdAt"
    /\ \E order \in SortOrders :
          filteredAndSortedTasks = FilteredAndSorted(tasks, "all", "createdAt", order)
    /\ currentMonth = DayKey(now, tzOffset) \div MonthLength
    /\ tasksByDate = TasksByDate(tasks, currentMonth, tzOffset)
    /\ last = [type |-> "INIT", id |-> NullId]
    /\ thrown = FALSE
    /\ PureIdle
    /\ TimerIdle
    /\ SyncIdle
    /\ DebounceIdle
    /\ FormClosed
    /\ StorageIdle
    /\ ProviderIdle

\* what a change of the list's state leaves alone
ListChanged ==
    /\ UNCHANGED <<currentMonth, tasksByDate, viewInput>>
    /\ UNCHANGED <<now, last, thrown>>
    /\ UNCHANGED pureVars
    /\ UNCHANGED timerVars
    /\ UNCHANGED syncVars
    /\ UNCHANGED debounceVars
    /\ UNCHANGED formVars
    /\ UNCHANGED storageVars
    /\ UNCHANGED providerVars

SetFilterStatus ==
    /\ \E v \in FilterValues \ {filterStatus} :
          /\ filterStatus' = v
          /\ RenderList(v, sortBy)
    /\ UNCHANGED sortBy
    /\ ListChanged

SetSortBy ==
    /\ \E v \in SortValues \ {sortBy} :
          /\ sortBy' = v
          /\ RenderList(filterStatus, v)
    /\ UNCHANGED filterStatus
    /\ ListChanged

\* setCurrentMonth and the render that recomputes calendarDays and tasksByDate
ShowMonth(month) ==
    /\ currentMonth' = month
    /\ tasksByDate' = TasksByDate(tasks, month, tzOffset)
    /\ UNCHANGED <<filterStatus, sortBy, filteredAndSortedTasks, viewInput>>
    /\ UNCHANGED reducerVars
    /\ UNCHANGED pureVars
    /\ UNCHANGED timerVars
    /\ UNCHANGED syncVars
    /\ UNCHANGED debounceVars
    /\ UNCHANGED formVars
    /\ UNCHANGED storageVars
    /\ UNCHANGED providerVars

goToPreviousMonth ==
    /\ currentMonth > MinMonth
    /\ ShowMonth(currentMonth - 1)

goToNextMonth ==
    /\ currentMonth < MaxMonth
    /\ ShowMonth(currentMonth + 1)

NextViews ==
    \/ SetFilterStatus
    \/ SetSortBy
    \/ goToPreviousMonth
    \/ goToNextMonth

SpecViews == InitViews /\ [][NextViews]_vars

\* ------------------------------------------------------------------- claims
\* what the status of a task that is not completed should be at a clock reading:
\* overdue when the deadline is strictly before today's midnight, else active
DerivedStatus(task, clock) ==
    IF task.deadline # NullDate /\ task.deadline < Midnight(clock)
    THEN TASK_STATUS.OVERDUE
    ELSE TASK_STATUS.ACTIVE

PastDeadline(task, clock) == task.deadline # NullDate /\ task.deadline < Midnight(clock)

C2_StatusAlwaysConsistent ==
    \A i \in 1..Len(tasks) :
        tasks[i].status # TASK_STATUS.COMPLETED =>
            tasks[i].status = DerivedStatus(tasks[i], now)

\* C2 as amended: right after a RecomputeStatuses every task that is not
\* completed, and right after an Update the updated task if it is not completed,
\* has the status derived from its deadline and today's midnight.
C2_ConsistentAfterRecompute ==
    /\ last.type = TASK_ACTIONS.UPDATE_TASK_STATUS =>
          \A i \in 1..Len(tasks) :
              tasks[i].status # TASK_STATUS.COMPLETED =>
                  tasks[i].status = DerivedStatus(tasks[i], now)
    /\ last.type = TASK_ACTIONS.UPDATE_TASK =>
          \A i \in 1..Len(tasks) :
              (tasks[i].id = last.id /\ tasks[i].status # TASK_STATUS.COMPLETED) =>
                  tasks[i].status = DerivedStatus(tasks[i], now)

\* a recompute has just turned a task overdue
C2_Witness ==
    /\ last.type = TASK_ACTIONS.UPDATE_TASK_STATUS
    /\ \E i \in 1..Len(tasks) :
          /\ tasks[i].status = TASK_STATUS.OVERDUE
          /\ tasks[i].updatedAt = now
          /\ tasks[i].createdAt < now

\* C3 as stated: the ids of the tasks in the collection are pairwise distinct.
C3_IdsUnique ==
    \A i, j \in 1..Len(tasks) : i # j => tasks[i].id # tasks[j].id

\* C4 as stated: once the component that uses the timer is unmounted no interval
\* the timer started is live and no tick callback of it runs.
C4_NoTickAfterTeardown ==
    ~mounted => (activeIntervals = {} /\ ~firedAfterTeardown)

\* C5 as stated: a timer has at most one live interval at any moment.
C5_AtMostOneInterval == Cardinality(activeIntervals) <= 1

LookupKinds ==
    {TASK_ACTIONS.UPDATE_TASK, TASK_ACTIONS.DELETE_TASK, TASK_ACTIONS.TOGGLE_COMPLETE,
     TASK_ACTIONS.UPDATE_TIMER, TASK_ACTIONS.RESET_TIMER}

LookupMiss ==
    /\ rAction.type \in LookupKinds
    /\ rAction.payload.id \notin IdsOf(rInput)

\* C6 (lookup miss): reducing an Update, Delete, ToggleComplete, UpdateTimer or
\* ResetTimer whose id no task carries yields the collection it was given: the
\* same tasks in the same order with every field, updatedAt too, unchanged.
C6_LookupMissNoOp ==
    (rCount >= 1 /\ LookupMiss) => tasks = rInput

\* a ResetTimer for an absent id was reduced over a non-empty collection holding
\* a task with elapsed time, at a clock reading later than its updatedAt
C6_Witness ==
    /\ rCount = 1
    /\ LookupMiss
    /\ rAction.type = TASK_ACTIONS.RESET_TIMER
    /\ now > 0
    /\ \E i \in 1..Len(rInput) : rInput[i].elapsedTime > 0

\* the indices of the tasks of a collection that do not carry the id
Kept(state, id) == {i \in 1..Len(state) : state[i].id # id}

\* the k-th smallest element of a set of indices
Nth(indices, k) == CHOOSE i \in indices : Cardinality({j \in indices : j <= i}) = k

\* C7 (Delete is idempotent): reducing Delete(id) once and reducing it twice both
\* yield the original collection without the tasks of that id, the others in
\* their original relative order.
C7_DeleteIdempotent ==
    (rCount >= 1 /\ rAction.type = TASK_ACTIONS.DELETE_TASK) =>
        LET kept == Kept(rInput, rAction.payload.id)
        IN  /\ Len(tasks) = Cardinality(kept)
            /\ \A k \in 1..Len(tasks) : tasks[k] = rInput[Nth(kept, k)]

\* Delete was reduced twice over a collection that holds the id twice
C7_Witness ==
    /\ rCount = 2
    /\ rAction.type = TASK_ACTIONS.DELETE_TASK
    /\ Len(rInput) = 2
    /\ rInput[1].id = rAction.payload.id
    /\ rInput[2].id = rAction.payload.id
    /\ tasks = <<>>

OverriddenByAdd == {"id", "createdAt", "updatedAt", "status", "elapsedTime"}

C9_UpdateMerges ==
    (rCount = 1 /\ rAction.type = TASK_ACTIONS.UPDATE_TASK) =>
        /\ Len(tasks) = Len(rInput)
        /\ \A i \in 1..Len(rInput) :
              IF rInput[i].id # rAction.payload.id
              THEN tasks[i] = rInput[i]
              ELSE LET old == rInput[i]
                       payload == rAction.payload
                       mergedStatus == IF "status" \in DOMAIN payload
                                       THEN payload.status ELSE old.status
                       mergedDeadline == IF "deadline" \in DOMAIN payload
                                         THEN payload.deadline ELSE old.deadline
                   IN  /\ DOMAIN tasks[i] = DOMAIN old \cup DOMAIN payload
                       /\ \A f \in DOMAIN tasks[i] \ {"status", "updatedAt"} :
                              tasks[i][f] = IF f \in DOMAIN payload THEN payload[f] ELSE old[f]
                       /\ tasks[i].updatedAt = now
                       /\ tasks[i].status =
                              IF mergedStatus = TASK_STATUS.COMPLETED
                              THEN TASK_STATUS.COMPLETED
                              ELSE IF mergedDeadline # NullDate
                                        /\ mergedDeadline < Midnight(now)
                                   THEN TASK_STATUS.OVERDUE
                                   ELSE TASK_STATUS.ACTIVE

\* an Update that carries a deadline in the past was reduced over a collection
\* that holds the id and another task: the updated task turned overdue
C9_Witness ==
    /\ rCount = 1
    /\ rAction.type = TASK_ACTIONS.UPDATE_TASK
    /\ "deadline" \in DOMAIN rAction.payload
    /\ Len(rInput) = 2
    /\ rInput[1].id = rAction.payload.id
    /\ rInput[2].id # rAction.payload.id
    /\ rInput[1].status = TASK_STATUS.ACTIVE
    /\ rInput[1].deadline = NullDate
    /\ tasks[1].status = TASK_STATUS.OVERDUE

\* the steps that are neither a ToggleComplete, a RecomputeStatuses, an Update
\* nor a replacement or removal of tasks
KeepStatusKinds ==
    {TASK_ACTIONS.ADD_TASK, TASK_ACTIONS.UPDATE_TIMER, TASK_ACTIONS.RESET_TIMER, "CLOCK"}

\* C10 (ToggleComplete): a ToggleComplete turns each task of the id from completed
\* to active, also when its deadline is in the past, and from active or overdue
\* to completed, and leaves the status of every other task; the status then stays
\* through Add, UpdateTimer, ResetTimer and the passing of time, until a
\* RecomputeStatuses or an Update recomputes it.
C10_ToggleComplete ==
    [][/\ last'.type = TASK_ACTIONS.TOGGLE_COMPLETE =>
            /\ Len(tasks') = Len(tasks)
            /\ \A i \in 1..Len(tasks) :
                  tasks'[i].status =
                      IF tasks[i].id # last'.id THEN tasks[i].status
                      ELSE IF tasks[i].status = TASK_STATUS.COMPLETED
                           THEN TASK_STATUS.ACTIVE
                           ELSE TASK_STATUS.COMPLETED
       /\ last'.type \in KeepStatusKinds =>
            /\ Len(tasks') >= Len(tasks)
            /\ \A i \in 1..Len(tasks) : tasks'[i].status = tasks[i].status]_vars

\* a ToggleComplete has just turned a task whose deadline is in the past from
\* completed to active
C10_Witness ==
    /\ last.type = TASK_ACTIONS.TOGGLE_COMPLETE
    /\ \E i \in 1..Len(tasks) :
          /\ tasks[i].id = last.id
          /\ tasks[i].status = TASK_STATUS.ACTIVE
          /\ PastDeadline(tasks[i], now)
          /\ tasks[i].updatedAt = now

\* C11 (RecomputeStatuses): a RecomputeStatuses gives every task the status that
\* calculateStatus yields for it (completed stays, else overdue when the deadline
\* is before today's midnight, else active); a task whose status was already
\* that one is returned with every field unchanged, any other task changes in
\* status and updatedAt (= the clock reading) only.
C11_RecomputeStatuses ==
    [][last'.type = TASK_ACTIONS.UPDATE_TASK_STATUS =>
          /\ Len(tasks') = Len(tasks)
          /\ \A i \in 1..Len(tasks) :
                LET want == IF tasks[i].status = TASK_STATUS.COMPLETED
                            THEN TASK_STATUS.COMPLETED
                            ELSE DerivedStatus(tasks[i], now)
                IN  /\ tasks'[i].status = want
                    /\ tasks[i].status = want => tasks'[i] = tasks[i]
                    /\ tasks[i].status # want =>
                          /\ DOMAIN tasks'[i] = DOMAIN tasks[i]
                          /\ tasks'[i].updatedAt = now
                          /\ \A f \in DOMAIN tasks[i] \ {"status", "updatedAt"} :
                                tasks'[i][f] = tasks[i][f]]_vars

\* a task that was added with a deadline of the day before (so it was active
\* after the Add) is overdue after a recompute, next to an active task that the
\* recompute returned with its earlier updatedAt
C11_Witness ==
    /\ last.type = TASK_ACTIONS.UPDATE_TASK_STATUS
    /\ \E i, j \in 1..Len(tasks) :
          /\ tasks[i].status = TASK_STATUS.OVERDUE
          /\ tasks[i].id[1] = tasks[i].createdAt
          /\ PastDeadline(tasks[i], tasks[i].createdAt)
          /\ tasks[i].updatedAt = now
          /\ tasks[j].status = TASK_STATUS.ACTIVE
          /\ tasks[j].updatedAt < now

\* the intents that keep every task of the collection they are given
KeepTaskKinds ==
    {TASK_ACTIONS.ADD_TASK, TASK_ACTIONS.UPDATE_TASK, TASK_ACTIONS.TOGGLE_COMPLETE,
     TASK_ACTIONS.UPDATE_TIMER, TASK_ACTIONS.RESET_TIMER, TASK_ACTIONS.UPDATE_TASK_STATUS}

\* C12 as stated: the task an Add appends has elapsedTime 0, and reducing an
\* intent changes the elapsedTime of a task only if the intent is an UpdateTimer
\* or a ResetTimer for the id of that task; Update (the edit form's Update
\* included), ToggleComplete and RecomputeStatuses leave every elapsedTime
\* unchanged.
C12_ElapsedOnlyByTimer ==
    (rCount = 1 /\ rAction.type \in KeepTaskKinds) =>
        /\ Len(tasks) >= Len(rInput)
        /\ \A i \in 1..Len(rInput) :
              tasks[i].elapsedTime # rInput[i].elapsedTime =>
                  /\ rAction.type \in {TASK_ACTIONS.UPDATE_TIMER, TASK_ACTIONS.RESET_TIMER}
                  /\ rAction.payload.id = rInput[i].id
        /\ rAction.type = TASK_ACTIONS.ADD_TASK => tasks[Len(tasks)].elapsedTime = 0

C14_PersistenceFollowsState ==
    (providerState \in {"mounted", "unmounted"} /\ ~saveDue /\ saveOk) =>
        stored = JSONstringify(JSValue(tasksType, tasks))

\* the save effect has just stored a collection of two tasks, one of them
\* completed, over what the store held before
C14_Witness ==
    /\ providerState = "mounted"
    /\ last.type = "SAVE"
    /\ saveOk
    /\ ~storeFails
    /\ Len(tasks) = 2
    /\ tasks[1].status = TASK_STATUS.COMPLETED
    /\ JSONparse(stored).items = tasks

\* a text that holds a JSON array
IsArrayText(item) == item.text = "json" /\ item.type = "array"

\* C15 as stated: when the tasks key holds nothing, a text that is not JSON, or
\* JSON that is not an array, the hydrated collection is the empty sequence, and
\* no later intent fails on the hydrated collection.
C15_HydrationTolerant ==
    /\ (last.type = "MOUNT" /\ ~IsArrayText(stored)) =>
          (tasksType = "array" /\ tasks = <<>>)
    /\ ~crashed

\* C16 as stated: no call of save, load, remove, clear or hasKey throws to its
\* caller, whatever the store does; when the store fails save, remove and clear
\* return false and leave the item as it was, load returns the default it was
\* given, hasKey returns a boolean; a save of an unserializable value returns false.
C16_AdapterNeverThrows ==
    adapterOutcome.done =>
        /\ ~adapterOutcome.threw
        /\ (storeFails /\ adapterCall.op \in {"save", "remove", "clear"}) =>
              (adapterOutcome.result = FALSE /\ stored = adapterOutcome.item)
        /\ (adapterCall.op = "save" /\ StringifyThrows(adapterCall.value)) =>
              adapterOutcome.result = FALSE
        /\ (storeFails /\ adapterCall.op = "load") =>
              adapterOutcome.result = adapterCall.value
        /\ adapterCall.op = "hasKey" => adapterOutcome.result \in BOOLEAN

\* C17 as stated: over the provider's lifetime loadFromStorage is called exactly
\* once, also when StrictMode re-runs initializers and effects.
C17_LoadsExactlyOnce ==
    providerState # "initial" => loads = 1

\* C18 (status interval): while the provider is mounted exactly one status
\* interval is live, also after StrictMode ran the mount effect, cleaned it up
\* and ran it again; before the effects ran and after the unmount none is live,
\* and none fires after the unmount; every step a firing takes is a
\* RecomputeStatuses dispatch.
C18_OneStatusInterval ==
    /\ providerState = "mounted" => Cardinality(statusIntervals) = 1
    /\ providerState # "mounted" => statusIntervals = {}
    /\ ~recomputedAfterTeardown
    /\ statusIntervals \subseteq {nextStatusId - 1}

\* a provider whose mount effect StrictMode ran twice, which then held tasks,
\* has been unmounted
C18_Witness ==
    /\ providerState = "unmounted"
    /\ strictMode
    /\ nextStatusId = 3
    /\ Len(tasks) > 0

\* C19 as stated: start leaves the timer running, and a start that finds it
\* running changes neither the state, the elapsed value nor the live intervals;
\* pause turns running into paused and changes none of the three when it finds
\* the timer idle or paused; reset leaves it idle; no other step changes the
\* state, so idle is re-entered only by reset.
C19_TimerTransitions ==
    /\ timerLast.op = "start" =>
          /\ timerState = TIMER_STATE.RUNNING
          /\ timerLast.timerState = TIMER_STATE.RUNNING =>
                (time = timerLast.time /\ activeIntervals = timerLast.activeIntervals)
    /\ timerLast.op = "pause" =>
          IF timerLast.timerState = TIMER_STATE.RUNNING
          THEN timerState = TIMER_STATE.PAUSED
          ELSE /\ timerState = timerLast.timerState
               /\ time = timerLast.time
               /\ activeIntervals = timerLast.activeIntervals
    /\ timerLast.op = "reset" => timerState = TIMER_STATE.IDLE
    /\ timerLast.op \notin {"start", "pause", "reset"} => timerState = timerLast.timerState
    /\ (timerState = TIMER_STATE.IDLE /\ timerLast.timerState # TIMER_STATE.IDLE) =>
          timerLast.op = "reset"

\* C20 as stated: while the timer is paused or idle no interval of it is live,
\* and a tick that increments the elapsed value finds the timer running.
C20_NoTickWhilePaused ==
    /\ timerState \in {TIMER_STATE.PAUSED, TIMER_STATE.IDLE} => activeIntervals = {}
    /\ (timerLast.op = "Tick" /\ time # timerLast.time) =>
          timerLast.timerState = TIMER_STATE.RUNNING

\* C21 as stated: a reset leaves the timer idle with its elapsed value equal to
\* the value the timer was constructed with, also when later renders supplied a
\* different initialTime.
C21_ResetToConstruction ==
    timerLast.op = "handleReset" =>
        (time = constructedWith /\ timerState = TIMER_STATE.IDLE)

\* what holds of the pending timeouts in every state
DebounceSafe ==
    /\ Cardinality(dbTimeouts) <= 1
    /\ \A t \in dbTimeouts : t.value = dbValue
    /\ ~dbMounted => dbTimeouts = {}
    /\ ~dbFiredAfterTeardown

\* what holds of every change of the debounced value
DebounceCommit ==
    debouncedValue' # debouncedValue =>
        (dbQuiet >= DebounceDelay /\ debouncedValue' = dbValue)

\* C22: the debounced value changes only after a full delay without a change of
\* the input and then becomes the latest input; at most one timeout is pending
\* and it carries the latest input, so no intermediate value is committed; no
\* timeout runs after the unmount; and when the input stops changing the
\* debounced value of a mounted component eventually equals it for good.
C22_Debounce ==
    /\ []DebounceSafe
    /\ [][DebounceCommit]_vars
    /\ (<>[][dbValue' = dbValue]_vars => <>[](dbMounted => debouncedValue = dbValue))

\* C22 witness: after two changes of the input the last timeout has run and the
\* debounced value is the latest input.
C22_Witness ==
    /\ dbNextId > 3
    /\ dbMounted
    /\ dbTimeouts = {}
    /\ dbQuiet = DebounceDelay
    /\ debouncedValue = dbValue

\* C23: a submit dispatches an Add or Update intent only when validateTask of
\* the submitted data is the empty mapping; when it is not empty no intent is
\* dispatched, the collection is as before and the mapping is the form's errors.
C23_SubmitOnlyWhenValid ==
    formSubmits > 0 =>
        LET errs == validateTask(formLast.data, now, tzOffset)
        IN  /\ formLast.intent \in {TASK_ACTIONS.ADD_TASK, TASK_ACTIONS.UPDATE_TASK}
                  => errs = {}
            /\ errs # {} =>
                  /\ formLast.intent = "none"
                  /\ tasks = formLast.before
                  /\ formErrors = errs

\* C23 witness: a submit of invalid data was refused and its errors are stored.
C23_Witness ==
    /\ formSubmits > 0
    /\ formLast.intent = "none"
    /\ formErrors # {}
    /\ tasks = formLast.before

\* the fields of the form as a task, texts as typed
TypedTask ==
    Spread(submittedTaskData(form, formExisting),
           [title |-> form.title, description |-> form.description])

\* what a field's own validator says of the task; the hours are validated when
\* they are provided
FieldError(task, key, clock, tz) ==
    CASE key = "title" -> validateTitle(task.title)
      [] key = "description" -> validateDescription(task.description)
      [] key = "allocatedHours" ->
            IF task.allocatedHours # 0 THEN validateHours(task.allocatedHours) ELSE NoError
      [] key = "deadline" -> validateDeadline(task.deadline, clock, tz)
      [] key = "repetitionDays" -> validateRepetitionDays(task.isRepetitive, task.repetitionDays)
      [] key = "dateRange" -> validateDateRange(task.startDate, task.endDate)

ErrorKeys == {"title", "description", "allocatedHours", "deadline", "repetitionDays",
              "dateRange"}

\* the rules of the validation module, read on the calendar of the user's zone
RulesHold(task, clock, tz) ==
    /\ Len(Trim(task.title)) >= TitleMinLength
    /\ Len(Trim(task.description)) = 0 \/ Len(Trim(task.description)) >= DescriptionMinLength
    /\ task.allocatedHours >= 0
    /\ NoDate(task.deadline) \/ task.deadline >= Midnight(clock + tz)
    /\ task.isRepetitive => Len(task.repetitionDays) > 0
    /\ (~NoDate(task.startDate) /\ ~NoDate(task.endDate)) => task.endDate >= task.startDate

\* C24 as stated: validateTask has a key for a field exactly when that field's
\* validator reports an error and is empty exactly when every rule holds; a
\* short title, a repetitive task without days and a short description each
\* give their entry, and a task with only a valid title gives the empty mapping.
C24_ValidateTask ==
    formSubmits = 0 =>
        LET errs == validateTask(TypedTask, now, tzOffset)
        IN  /\ \A key \in ErrorKeys :
                  key \in Keys(errs) <=> FieldError(TypedTask, key, now, tzOffset) # NoError
            /\ errs = {} <=> RulesHold(TypedTask, now, tzOffset)
            /\ Len(Trim(TypedTask.title)) < TitleMinLength => "title" \in Keys(errs)
            /\ (TypedTask.isRepetitive /\ TypedTask.repetitionDays = <<>>)
                  => "repetitionDays" \in Keys(errs)
            /\ Len(Trim(TypedTask.description)) \in 1..(DescriptionMinLength - 1)
                  => "description" \in Keys(errs)
            /\ validateTask([title |-> <<"a", "b", "c">>], now, tzOffset) = {}

\* C25 as stated: a date-range task that passed validation has an endDate that
\* is not earlier than its startDate, and validateTask reports an error for a
\* date-range task whose endDate is missing or earlier than its startDate.
C25_DateRangeHasEnd ==
    /\ (formSubmits > 0
           /\ formLast.intent \in {TASK_ACTIONS.ADD_TASK, TASK_ACTIONS.UPDATE_TASK}
           /\ formLast.data.taskType = TASK_TYPE.DATE_RANGE)
          => /\ ~NoDate(formLast.data.endDate)
             /\ ~NoDate(formLast.data.startDate)
                   => formLast.data.endDate >= formLast.data.startDate
    /\ (formSubmits = 0
           /\ TypedTask.taskType = TASK_TYPE.DATE_RANGE
           /\ \/ NoDate(TypedTask.endDate)
              \/ (~NoDate(TypedTask.startDate) /\ TypedTask.endDate < TypedTask.startDate))
          => validateTask(TypedTask, now, tzOffset) # {}

\* the ids of an array of tasks, in its order
IdsInOrder(arr) == [i \in 1..Len(arr) |-> arr[i].id]

\* C26: under the deadline sort, for every collection and status filter, the
\* projection holds exactly the filtered tasks, every task without a deadline
\* comes after every task with one, the deadlines are in non-decreasing order,
\* and the collection is as it was given.
C26_DeadlineSorted ==
    sortBy = "deadline" =>
        LET shown == filteredAndSortedTasks
            given == Filtered(viewInput, filterStatus)
        IN  /\ Len(shown) = Len(given)
            /\ {shown[i] : i \in 1..Len(shown)} = {given[i] : i \in 1..Len(given)}
            /\ Cardinality({shown[i].id : i \in 1..Len(shown)}) = Len(shown)
            /\ \A i, j \in 1..Len(shown) :
                  i < j =>
                    /\ shown[i].deadline = NullDate => shown[j].deadline = NullDate
                    /\ (shown[i].deadline # NullDate /\ shown[j].deadline # NullDate)
                          => shown[i].deadline <= shown[j].deadline
            /\ tasks = viewInput

\* C26 witness: the deadline sort moved a task with a deadline in front of two
\* tasks without one.
C26_Witness ==
    /\ sortBy = "deadline"
    /\ Len(filteredAndSortedTasks) = MaxViewTasks
    /\ filteredAndSortedTasks[1].deadline # NullDate
    /\ filteredAndSortedTasks[2].deadline = NullDate
    /\ IdsInOrder(filteredAndSortedTasks) # IdsInOrder(Filtered(tasks, filterStatus))

\* how often the task at index i is in a day's bucket
TimesListed(key, i) ==
    IF key \in DOMAIN tasksByDate
    THEN Cardinality({j \in 1..Len(tasksByDate[key]) : tasksByDate[key][j] = i})
    ELSE 0

\* C27: for every collection and grid month, no day's bucket lists a task more
\* than once, and a task is listed exactly once for every day it matches by its
\* startDate, its date range or a repetition weekday, also by several at once.
C27_ListedOnce ==
    /\ \A key \in DOMAIN tasksByDate : \A i \in 1..Len(tasks) : TimesListed(key, i) <= 1
    /\ \A i \in 1..Len(tasks) :
          \A key \in StartKeys(tasks[i], tzOffset) \cup RangeKeys(tasks[i], tzOffset)
                        \cup RepeatKeys(tasks[i], getMonthDays(currentMonth)) :
              TimesListed(key, i) = 1

\* C27 witness: in the grid of the month before, a task of a collection of
\* several matches one day by all three rules and is listed once for it.
C27_Witness ==
    /\ Len(tasks) > 1
    /\ currentMonth < 0
    /\ \E i \in 1..Len(tasks) :
          \E key \in StartKeys(tasks[i], tzOffset) :
              /\ key \in RangeKeys(tasks[i], tzOffset)
              /\ key \in RepeatKeys(tasks[i], getMonthDays(currentMonth))
              /\ TimesListed(key, i) = 1

ElapsedInCollection ==
    (CHOOSE t \in {tasks[i] : i \in 1..Len(tasks)} : t.id = TimedId).elapsedTime

\* Reset was pressed, the timer was not started since (only Reset makes a timer
\* idle again), and every render and effect the reset triggered has run
ResetSettled ==
    /\ sinceReset
    /\ mounted
    /\ HasTimedTask
    /\ timerState = TIMER_STATE.IDLE
    /\ activeIntervals = {}
    /\ ~NeedsRender

\* C29 as stated: the reset handler leaves the timer idle, and once the effects
\* it triggers have run, the task's elapsedTime in the collection is 0 and the
\* timer's displayed time is 0.
C29_ResetToZero ==
    /\ timerLast.op = "handleReset" => timerState = TIMER_STATE.IDLE
    /\ ResetSettled => (ElapsedInCollection = 0 /\ time = 0)

\* the ids of the tasks in the stored item
StoredIds == IdsOf(JSONparse(stored).items)

\* C30: once a task is deleted, no task with its id is in the collection again,
\* whatever intent for that id arrives later (Update, ToggleComplete,
\* UpdateTimer, ResetTimer, RecomputeStatuses, an UpdateTimer of the task's own
\* timer that was in flight included); and once the stored item has no task
\* with that id, no later save puts one back.
C30_DeletedStaysDeleted ==
    /\ [](TimedId \in deletedIds => TimedId \notin IdsOf(tasks))
    /\ [][(TimedId \in deletedIds /\ TimedId \notin StoredIds)
             => TimedId \notin IdsOf(JSONparse(stored').items)]_vars

\* C30 witness: the task is deleted, its still mounted timer ticked and its sync
\* effect dispatched UPDATE_TIMER for the deleted id, and the collection was
\* saved after that.
C30_Witness ==
    /\ TimedId \in deletedIds
    /\ timerLast.op = "commit"
    /\ last = [type |-> TASK_ACTIONS.UPDATE_TIMER, id |-> TimedId]
    /\ stored = JSONstringify(JSArray(tasks))

====
